---- MODULE Spec2Model ----
(***************************************************************************)
(* Rate synchronisation and resolution engine of ValutaTrade Hub:          *)
(* the history ledger (exchange_rates.json), the snapshot store            *)
(* (rates.json), the update orchestrator (RatesUpdater.run_update) and the *)
(* rate resolver (usecases.get_rate).                                      *)
(*                                                                         *)
(* Representation.                                                         *)
(*  - Time is counted in ticks, TicksPerSecond ticks to a second, so that  *)
(*    replace(microsecond=0) is a real truncation.                         *)
(*  - A timestamp string is <<kind, t>>: "Z" is an ISO string ending in Z, *)
(*    "off" one ending in +00:00, "bad" a string that is no timestamp      *)
(*    (str(None)), "none" a missing/null value.  t is in ticks.            *)
(*  - A rate is a fraction <<n, d>> in lowest terms (d > 0 for finite      *)
(*    values).  Python floats round; "equal within tolerance" is modelled  *)
(*    as equality of fractions.                                            *)
(*  - A JSON object is a function from its keys.                           *)
(***************************************************************************)
EXTENDS Integers, Sequences, FiniteSets, TLC

\* ---------------------------------------------------------------- bounds
MaxTime == 3
TicksPerSecond == 2
TtlSeconds == 1
MaxOps == 2
MaxBatch == 2
DaySeconds == 1
MaxDays == 2

VARIABLES
    history_file,   \* exchange_rates.json
    rates_file,     \* rates.json
    now,            \* the clock, in ticks
    env,            \* os.environ: PARSER_SNAPSHOT_STRICT, PARSER_HISTORY_DISABLED,
                    \* PARSER_AUTO_UPDATE_ON_START, and the local time zone (TZ)
    fromiso_z,      \* whether this interpreter's datetime.fromisoformat reads "...Z"
    last,           \* the last call: operation, arguments, outcome
    fb,             \* the last fallback write-back not yet followed by another snapshot write
    ops,            \* number of calls made
    writers,        \* processes in the middle of writing rates.json
    tmp_file,       \* rates.json.tmp
    sched           \* the process running run_periodic

vars == <<history_file, rates_file, now, env, fromiso_z, last, fb, ops,
          writers, tmp_file, sched>>

\* ------------------------------------------------------- JSON-object maps
EmptyMap == [k \in {} |-> <<>>]

Put(m, k, v) == [x \in (DOMAIN m) \cup {k} |-> IF x = k THEN v ELSE m[x]]

\* ------------------------------------------------------------ timestamps
NoTs == <<"none", 0>>
BadTs == <<"bad", 0>>

\* dt.replace(microsecond=0)
Trunc(t) == t - (t % TicksPerSecond)

\* _now().replace(microsecond=0).isoformat()  -> "...+00:00"
IsoOffset(t) == <<"off", Trunc(t)>>

\* datetime.now(timezone.utc).replace(microsecond=0).isoformat().replace("+00:00", "Z")
IsoZ(t) == <<"Z", Trunc(t)>>

\* the text of a timestamp inside a history id
TsText(ts) ==
    IF ts[1] = "Z" THEN ToString(ts[2]) \o "Z"
    ELSE IF ts[1] = "off" THEN ToString(ts[2]) \o "+00:00"
    ELSE "None"

\* ----------------------------------------------------------------- rates
RECURSIVE GCD(_, _)
GCD(a, b) == IF b = 0 THEN a ELSE GCD(b, a % b)

\* 1.0 / r
RatInv(r) == <<r[2], r[1]>>

\* a / b for positive fractions in lowest terms, cancelling before multiplying
RatDiv(a, b) ==
    LET g1 == GCD(a[1], b[1])
        g2 == GCD(a[2], b[2])
    IN  <<(a[1] \div g1) * (b[2] \div g2), (a[2] \div g2) * (b[1] \div g1)>>

One == <<1, 1>>

\* ------------------------------------------------------------ currencies
\* core/currencies.py _REGISTRY
Registry == {"USD", "EUR", "RUB", "BTC", "ETH"}

\* (code or "").strip().upper() on the request strings the model draws
Normalize(c) == IF c = " usd" THEN "USD" ELSE c

\* the fallback table without the entry of one registry code
DefaultRatesToUsd_NoRub ==
    [USD |-> <<1, 1>>, EUR |-> <<5393, 5000>>, BTC |-> <<5933721, 100>>,
     ETH |-> <<3720, 1>>]

\* usecases._default_rates_to_usd: 1.0, 1.0786, 59337.21, 3720.0, 0.01016
DefaultRatesToUsd ==
    [USD |-> <<1, 1>>, EUR |-> <<5393, 5000>>, BTC |-> <<5933721, 100>>,
     ETH |-> <<3720, 1>>, RUB |-> <<127, 12500>>]

\* usecases._pair_key
PairKey(f, t) == f \o "_" \o t

\* codes that occur in provider pair keys
PairCodes == {"USD", "EUR", "BTC", "GBP"}

\* pair.split("_", 1)
SplitPair(pair) ==
    CHOOSE ft \in PairCodes \X PairCodes : ft[1] \o "_" \o ft[2] = pair

\* ------------------------------------------------- the persisted files
\* exchange_rates.json: missing, unparseable text, or a JSON list
MissingHistory == [st |-> "missing", recs |-> <<>>]
CorruptHistory == [st |-> "corrupt", recs |-> <<>>]
HistoryList(recs) == [st |-> "list", recs |-> recs]

NoSource == "<absent>"

\* rates.json: missing, unparseable text, or a JSON object
\*   has_pairs / pairs : the "pairs" section
\*   top               : pair records stored at the top level (file without "pairs")
\*   source            : the top-level "source" entry
MissingRates ==
    [st |-> "missing", has_pairs |-> FALSE, pairs |-> EmptyMap, top |-> EmptyMap,
     source |-> NoSource, last_refresh |-> NoTs]
CorruptRates ==
    [st |-> "corrupt", has_pairs |-> FALSE, pairs |-> EmptyMap, top |-> EmptyMap,
     source |-> NoSource, last_refresh |-> NoTs]
\* "{}" as written by usecases._ensure_data_files and DatabaseManager.__init__
EmptyObjectRates ==
    [st |-> "obj", has_pairs |-> FALSE, pairs |-> EmptyMap, top |-> EmptyMap,
     source |-> NoSource, last_refresh |-> NoTs]
\* {"pairs": pairs, "last_refresh": last_refresh}
SnapshotObject(pairs, last_refresh) ==
    [st |-> "obj", has_pairs |-> TRUE, pairs |-> pairs, top |-> EmptyMap,
     source |-> NoSource, last_refresh |-> last_refresh]
EmptySnapshot == SnapshotObject(EmptyMap, NoTs)

\* storage.ensure_storage
EnsureHistory(hf) == IF hf.st = "missing" THEN HistoryList(<<>>) ELSE hf
EnsureRates(rf) == IF rf.st = "missing" THEN EmptySnapshot ELSE rf

\* ---------------------------------------------------------- history ledger
IdMissing == "<no id>"

\* str(rec.get("id"))
StrId(rec) == IF rec.id = IdMissing THEN "None" ELSE rec.id

\* read_exchange_rates inside try/except: an unparseable file reads as []
ReadExchangeRates(hf) == IF hf.st = "list" THEN hf.recs ELSE <<>>

SeenIds(current) == {StrId(current[i]) : i \in 1..Len(current)}

\* the loop of append_history without the "rid in seen_ids" test
RECURSIVE Dedup_IgnoreSeen(_, _, _)
Dedup_IgnoreSeen(records, seen_ids, to_add) ==
    IF records = <<>> THEN to_add
    ELSE LET rec == Head(records)
             rid == StrId(rec)
         IN  IF rid = ""
             THEN Dedup_IgnoreSeen(Tail(records), seen_ids, to_add)
             ELSE Dedup_IgnoreSeen(Tail(records), seen_ids \cup {rid}, Append(to_add, rec))

\* the loop of append_history without seen_ids.add(rid)
RECURSIVE Dedup_NoAdd(_, _, _)
Dedup_NoAdd(records, seen_ids, to_add) ==
    IF records = <<>> THEN to_add
    ELSE LET rec == Head(records)
             rid == StrId(rec)
         IN  IF rid = "" \/ rid \in seen_ids
             THEN Dedup_NoAdd(Tail(records), seen_ids, to_add)
             ELSE Dedup_NoAdd(Tail(records), seen_ids, Append(to_add, rec))

\* for rec in records: ... to_add.append(rec); seen_ids.add(rid)
RECURSIVE Dedup(_, _, _)
Dedup(records, seen_ids, to_add) ==
    IF records = <<>> THEN to_add
    ELSE LET rec == Head(records)
             rid == StrId(rec)
         IN  IF rid = "" \/ rid \in seen_ids
             THEN Dedup(Tail(records), seen_ids, to_add)
             ELSE Dedup(Tail(records), seen_ids \cup {rid}, Append(to_add, rec))

\* append_history that does not look at the ids already stored
AppendHistory_NoSeen(hf0, records) ==
    LET hf == EnsureHistory(hf0)
        current == ReadExchangeRates(hf)
        to_add == Dedup(records, {}, <<>>)
    IN  IF to_add = <<>>
        THEN [ret |-> 0, file |-> hf]
        ELSE [ret |-> Len(to_add), file |-> HistoryList(current \o to_add)]

\* append_history without the try around read_exchange_rates: a file that does
\* not parse ends the call before anything is written
AppendHistory_NoCatch(hf0, records) ==
    LET hf == EnsureHistory(hf0)
        current == ReadExchangeRates(hf)
        to_add == Dedup(records, SeenIds(current), <<>>)
    IN  IF hf.st = "corrupt" \/ to_add = <<>>
        THEN [ret |-> 0, file |-> hf]
        ELSE [ret |-> Len(to_add), file |-> HistoryList(current \o to_add)]

\* append_history writing the new records in front of the stored ones
AppendHistory_Prepend(hf0, records) ==
    LET hf == EnsureHistory(hf0)
        current == ReadExchangeRates(hf)
        to_add == Dedup(records, SeenIds(current), <<>>)
    IN  IF to_add = <<>>
        THEN [ret |-> 0, file |-> hf]
        ELSE [ret |-> Len(to_add), file |-> HistoryList(to_add \o current)]

\* storage.append_history: [ret, file]
AppendHistory(hf0, records) ==
    LET hf == EnsureHistory(hf0)
        current == ReadExchangeRates(hf)
        to_add == Dedup(records, SeenIds(current), <<>>)
    IN  IF to_add = <<>>
        THEN [ret |-> 0, file |-> hf]
        ELSE [ret |-> Len(to_add), file |-> HistoryList(current \o to_add)]

\* clear_history counting after the write instead of before it
ClearHistory_CountAfter(hf0) ==
    LET cleared == HistoryList(<<>>)
    IN  [ret |-> Len(ReadExchangeRates(cleared)), file |-> cleared]

\* storage.clear_history: [ret, file]
ClearHistory(hf0) ==
    LET hf == EnsureHistory(hf0)
        current == ReadExchangeRates(hf)
    IN  [ret |-> Len(current), file |-> HistoryList(<<>>)]

\* ----------------------------------------------------------- snapshot store
\* str(os.getenv(NAME, "0")).strip() in {"1", "true", "True"}
EnvOn(v) == v \in {"1", "true", "True"}

\* storage.read_snapshot after ensure_storage
ReadSnapshot(rf) == IF rf.st = "obj" THEN rf ELSE EmptySnapshot

\* dict(snap.get("pairs") or {})
SnapPairs(snap) == IF snap.has_pairs THEN snap.pairs ELSE EmptyMap

\* write_snapshot_pairs._is_newer._parse: a timestamp that parses is an aware
\* datetime; a missing or unparseable one is datetime.min, which is naive
ParseTs(ts) == IF ts[1] \in {"Z", "off"} THEN <<"aware", ts[2]>> ELSE <<"naive", 0>>

\* comparing a naive with an aware datetime raises TypeError
CompareRaises(ts_new, ts_old) == ParseTs(ts_new)[1] # ParseTs(ts_old)[1]

\* _parse(ts_new) > _parse(ts_old): an equal timestamp does not replace
IsNewer_Strict(ts_new, ts_old) == ParseTs(ts_new)[2] > ParseTs(ts_old)[2]

\* _parse(ts_new) <= _parse(ts_old): the comparison turned round
IsNewer_Reversed(ts_new, ts_old) == ParseTs(ts_new)[2] <= ParseTs(ts_old)[2]

\* write_snapshot_pairs._is_newer: _parse(ts_new) >= _parse(ts_old)
IsNewer(ts_new, ts_old) == ParseTs(ts_new)[2] >= ParseTs(ts_old)[2]

\* the merge loop: pairs[key] = obj when cur is no dict or obj is newer
MergePairs(pairs, new_pairs) ==
    [k \in (DOMAIN pairs) \cup (DOMAIN new_pairs) |->
        IF k \in DOMAIN new_pairs
           /\ (k \notin DOMAIN pairs
               \/ IsNewer(new_pairs[k].updated_at, pairs[k].updated_at))
        THEN new_pairs[k]
        ELSE pairs[k]]

\* strict mode that keeps the stored keys
WriteSnapshotPairs_StrictMerges(rf, new_pairs, last_refresh, strict) ==
    LET ens == EnsureRates(rf)
        pairs == SnapPairs(ReadSnapshot(ens))
    IN  [ok |-> TRUE, file |-> SnapshotObject(MergePairs(pairs, new_pairs), last_refresh)]

\* storage.write_snapshot_pairs: [ok, file]; ok = FALSE when the merge raises
WriteSnapshotPairs(rf, new_pairs, last_refresh, strict) ==
    IF strict
    THEN [ok |-> TRUE, file |-> SnapshotObject(new_pairs, last_refresh)]
    ELSE LET ens == EnsureRates(rf)
             pairs == SnapPairs(ReadSnapshot(ens))
             raises == \E k \in (DOMAIN new_pairs) \cap (DOMAIN pairs) :
                          CompareRaises(new_pairs[k].updated_at, pairs[k].updated_at)
         IN  IF raises
             THEN [ok |-> FALSE, file |-> ens]
             ELSE [ok |-> TRUE,
                   file |-> SnapshotObject(MergePairs(pairs, new_pairs), last_refresh)]

\* ------------------------------------------------------------- resolver
\* timedelta(seconds=RATES_MAX_AGE_SECONDS), in ticks
MaxAge == TtlSeconds * TicksPerSecond

\* get_rate._is_fresh without the age test
IsFresh_NoAge(ts, t_now, z_ok) == ts[1] = "off" \/ (ts[1] = "Z" /\ z_ok)

\* get_rate._is_fresh that counts an age equal to the TTL as stale
IsFresh_Exclusive(ts, t_now, z_ok) ==
    /\ ts[1] = "off" \/ (ts[1] = "Z" /\ z_ok)
    /\ (t_now - ts[2]) < MaxAge

\* get_rate._is_fresh: datetime.fromisoformat(ts), without the "Z" replacement
\* the other parse sites make; (_now() - updated) <= timedelta(seconds=TTL)
IsFresh(ts, t_now, z_ok) ==
    /\ ts[1] = "off" \/ (ts[1] = "Z" /\ z_ok)
    /\ (t_now - ts[2]) <= MaxAge

Unavailable == <<0, 0>>

\* get_rate, the three branches over def_rates
FallbackRate(f, t) ==
    LET def_rates == DefaultRatesToUsd
    IN  IF f = "USD" /\ t \in DOMAIN def_rates THEN RatInv(def_rates[t])
        ELSE IF t = "USD" /\ f \in DOMAIN def_rates THEN def_rates[f]
        ELSE IF f \in DOMAIN def_rates /\ t \in DOMAIN def_rates
             THEN RatDiv(def_rates[f], def_rates[t])
        ELSE Unavailable

NoRet == [rate |-> Unavailable, updated_at |-> NoTs, source |-> ""]

PairRecord(rate, ts, src) == [rate |-> rate, updated_at |-> ts, source |-> src]

\* usecases._ensure_data_files: a missing rates.json becomes "{}"
EnsureDataFiles(rf) == IF rf.st = "missing" THEN EmptyObjectRates ELSE rf

\* the write-back of get_rate: both file layouts
WriteBack(cache, key, rate, ts) ==
    IF cache.has_pairs
    THEN [cache EXCEPT !.pairs = Put(cache.pairs, key, PairRecord(rate, ts, "LocalStub")),
                       !.last_refresh = ts]
    ELSE [cache EXCEPT !.top = Put(cache.top, key, PairRecord(rate, ts, NoSource)),
                       !.source = IF cache.source = NoSource THEN "LocalStub"
                                  ELSE cache.source,
                       !.last_refresh = ts]

NoEntry == [present |-> FALSE, rec |-> NoRet]

\* entry = pairs_section.get(key) / cache.get(key)
CacheEntry(cache, key) ==
    LET section == IF cache.has_pairs THEN cache.pairs ELSE cache.top
    IN  IF cache.st = "obj" /\ key \in DOMAIN section
        THEN [present |-> TRUE, rec |-> section[key]]
        ELSE NoEntry

\* get_rate that loads the cache before comparing the two codes
GetRate_CacheFirst(rf0, frm, to, t_now, z_ok) ==
    LET f == Normalize(frm)
        t == Normalize(to)
        cache == EnsureDataFiles(rf0)
        ts == IsoOffset(t_now)
    IN  IF f = "" \/ t = "" \/ f \notin Registry \/ t \notin Registry
        THEN [path |-> "unknown_currency", ret |-> NoRet, entry |-> NoEntry, file |-> rf0]
        ELSE IF cache.st = "corrupt"
        THEN [path |-> "read_error", ret |-> NoRet, entry |-> NoEntry, file |-> cache]
        ELSE IF f = t
        THEN [path |-> "same", ret |-> PairRecord(One, ts, "local"),
              entry |-> NoEntry, file |-> cache]
        ELSE [path |-> "fallback",
              ret |-> PairRecord(FallbackRate(f, t), ts, "LocalStub"),
              entry |-> CacheEntry(cache, PairKey(f, t)),
              file |-> WriteBack(cache, PairKey(f, t), FallbackRate(f, t), ts)]

\* get_rate that compares the two codes before validating them
GetRate_SameFirst(rf0, frm, to, t_now, z_ok) ==
    LET f == Normalize(frm)
        t == Normalize(to)
        cache == EnsureDataFiles(rf0)
        key == PairKey(f, t)
        entry == CacheEntry(cache, key)
        rate == FallbackRate(f, t)
        ts == IsoOffset(t_now)
    IN  IF f = "" \/ t = ""
        THEN [path |-> "unknown_currency", ret |-> NoRet, entry |-> NoEntry, file |-> rf0]
        ELSE IF f = t
        THEN [path |-> "same", ret |-> PairRecord(One, ts, "local"),
              entry |-> NoEntry, file |-> rf0]
        ELSE IF f \notin Registry \/ t \notin Registry
        THEN [path |-> "unknown_currency", ret |-> NoRet, entry |-> NoEntry, file |-> rf0]
        ELSE IF cache.st = "corrupt"
        THEN [path |-> "read_error", ret |-> NoRet, entry |-> NoEntry, file |-> cache]
        ELSE IF entry.present /\ IsFresh(entry.rec.updated_at, t_now, z_ok)
        THEN [path |-> "hit",
              ret |-> PairRecord(entry.rec.rate, entry.rec.updated_at, entry.rec.source),
              entry |-> entry, file |-> cache]
        ELSE IF rate = Unavailable
        THEN [path |-> "unavailable", ret |-> NoRet, entry |-> entry, file |-> cache]
        ELSE [path |-> "fallback", ret |-> PairRecord(rate, ts, "LocalStub"),
              entry |-> entry, file |-> WriteBack(cache, key, rate, ts)]

\* usecases.get_rate: [path, ret, entry, file]
\*   unknown_currency : CurrencyNotFoundError
\*   same             : f == t
\*   read_error       : DatabaseManager._read_json raises on unparseable JSON
\*   hit              : fresh cached entry
\*   fallback         : derived from def_rates and written back
\*   unavailable      : DomainError, a code is missing from def_rates
GetRate(rf0, frm, to, t_now, z_ok) ==
    LET f == Normalize(frm)
        t == Normalize(to)
        cache == EnsureDataFiles(rf0)
        key == PairKey(f, t)
        entry == CacheEntry(cache, key)
        rate == FallbackRate(f, t)
        ts == IsoOffset(t_now)
    IN  IF f = "" \/ t = "" \/ f \notin Registry \/ t \notin Registry
        THEN [path |-> "unknown_currency", ret |-> NoRet, entry |-> NoEntry, file |-> rf0]
        ELSE IF f = t
        THEN [path |-> "same", ret |-> PairRecord(One, ts, "local"),
              entry |-> NoEntry, file |-> rf0]
        ELSE IF cache.st = "corrupt"
        THEN [path |-> "read_error", ret |-> NoRet, entry |-> NoEntry, file |-> cache]
        ELSE IF entry.present /\ IsFresh(entry.rec.updated_at, t_now, z_ok)
        THEN [path |-> "hit",
              ret |-> PairRecord(
                        entry.rec.rate, entry.rec.updated_at,
                        IF entry.rec.source # NoSource THEN entry.rec.source
                        ELSE IF cache.source # NoSource THEN cache.source
                        ELSE "cache"),
              entry |-> entry, file |-> cache]
        ELSE IF rate = Unavailable
        THEN [path |-> "unavailable", ret |-> NoRet, entry |-> entry, file |-> cache]
        ELSE [path |-> "fallback", ret |-> PairRecord(rate, ts, "LocalStub"),
              entry |-> entry, file |-> WriteBack(cache, key, rate, ts)]

\* --------------------------------------------------------- orchestrator
\* One provider's fetch_rates outcome: ok = FALSE when it raises; items is
\* the rates dict in insertion order, each key with its meta timestamp/source.
FetchFailed == [ok |-> FALSE, items |-> <<>>]
Fetched(items) == [ok |-> TRUE, items |-> items]
Item(pair, rate, ts, src) == [pair |-> pair, rate |-> rate, ts |-> ts, source |-> src]

\* rates_all.update(rates); meta_all.update(meta): a key already present keeps
\* its position and takes the new value, a new key goes last
RECURSIVE DictUpdate(_, _)
DictUpdate(d, items) ==
    IF items = <<>> THEN d
    ELSE LET it == Head(items)
             at == {i \in 1..Len(d) : d[i].pair = it.pair}
         IN  DictUpdate(IF at = {} THEN Append(d, it)
                        ELSE [d EXCEPT ![CHOOSE i \in at : TRUE] = it],
                        Tail(items))

\* sources = [source] if source else list(self.clients.keys())
Sources(source) == IF source # "" THEN <<source>> ELSE <<"exchangerate", "coingecko">>

\* the fetch loop giving up the whole run at the first provider that raises
RECURSIVE FetchAll_Abort(_, _, _)
FetchAll_Abort(sources, fetch, rates_all) ==
    IF sources = <<>> THEN rates_all
    ELSE LET name == Head(sources)
         IN  IF name \notin DOMAIN fetch THEN FetchAll_Abort(Tail(sources), fetch, rates_all)
             ELSE IF ~fetch[name].ok THEN <<>>
             ELSE FetchAll_Abort(Tail(sources), fetch,
                                 DictUpdate(rates_all, fetch[name].items))

\* the fetch loop of run_update: a provider that raises contributes nothing
RECURSIVE FetchAll(_, _, _)
FetchAll(sources, fetch, rates_all) ==
    IF sources = <<>> THEN rates_all
    ELSE LET name == Head(sources)
         IN  IF name \notin DOMAIN fetch \/ ~fetch[name].ok
             THEN FetchAll(Tail(sources), fetch, rates_all)
             ELSE FetchAll(Tail(sources), fetch,
                           DictUpdate(rates_all, fetch[name].items))

\* the fetch loop calling a provider that raised a second time
RECURSIVE FetchCalls_Retry(_, _, _)
FetchCalls_Retry(sources, fetch, calls) ==
    IF sources = <<>> THEN calls
    ELSE LET name == Head(sources)
         IN  IF name \notin DOMAIN fetch THEN FetchCalls_Retry(Tail(sources), fetch, calls)
             ELSE IF ~fetch[name].ok
             THEN FetchCalls_Retry(Tail(sources), fetch, calls \o <<name, name>>)
             ELSE FetchCalls_Retry(Tail(sources), fetch, Append(calls, name))

\* the fetch loop of run_update as the sequence of client.fetch_rates() calls
\* it makes: one per name in sources that has a client, whatever the outcome
RECURSIVE FetchCalls(_, _, _)
FetchCalls(sources, fetch, calls) ==
    IF sources = <<>> THEN calls
    ELSE LET name == Head(sources)
         IN  IF name \notin DOMAIN fetch THEN FetchCalls(Tail(sources), fetch, calls)
             ELSE FetchCalls(Tail(sources), fetch, Append(calls, name))

\* counters[name] = len(rates)
Counter(sources, fetch, name) ==
    IF (\E i \in 1..Len(sources) : sources[i] = name) /\ name \in DOMAIN fetch
       /\ fetch[name].ok
    THEN Len(fetch[name].items)
    ELSE 0

\* one history row: id = f"{frm}_{to}_{ts}", ts = meta timestamp or now
HistoryRow(it, t_now) ==
    LET ft == SplitPair(it.pair)
        ts == IF it.ts[1] = "none" THEN IsoZ(t_now) ELSE it.ts
    IN  [id |-> ft[1] \o "_" \o ft[2] \o "_" \o TsText(ts),
         from_currency |-> ft[1], to_currency |-> ft[2],
         rate |-> it.rate, timestamp |-> ts, source |-> it.source]

\* the history loop stopping after the first aggregated pair
HistoryRows_First(rates_all, t_now) ==
    IF rates_all = <<>> THEN <<>> ELSE <<HistoryRow(rates_all[1], t_now)>>

\* the history loop skipping the pairs the snapshot loop skips
HistoryRows_PositiveOnly(rates_all, t_now) ==
    LET IsPositive(it) == it.rate[1] > 0
        kept == SelectSeq(rates_all, IsPositive)
    IN  [i \in 1..Len(kept) |-> HistoryRow(kept[i], t_now)]

\* one row per aggregated pair
HistoryRows(rates_all, t_now) ==
    [i \in 1..Len(rates_all) |-> HistoryRow(rates_all[i], t_now)]

\* ts = str(meta.get("timestamp")): a missing timestamp becomes the text "None"
MetaTs(it) == IF it.ts[1] = "none" THEN BadTs ELSE it.ts

\* the snapshot loop writing the forward record only
RECURSIVE BuildPairs_NoInverse(_, _)
BuildPairs_NoInverse(rates_all, pairs) ==
    IF rates_all = <<>> THEN pairs
    ELSE LET it == Head(rates_all)
         IN  IF it.rate[1] <= 0 THEN BuildPairs_NoInverse(Tail(rates_all), pairs)
             ELSE BuildPairs_NoInverse(
                    Tail(rates_all),
                    Put(pairs, it.pair, PairRecord(it.rate, MetaTs(it), it.source)))

\* the snapshot loop of run_update: both directions, rate <= 0 skipped
RECURSIVE BuildPairs(_, _)
BuildPairs(rates_all, pairs) ==
    IF rates_all = <<>> THEN pairs
    ELSE LET it == Head(rates_all)
             ft == SplitPair(it.pair)
             fwd == it.pair
             inv == ft[2] \o "_" \o ft[1]
         IN  IF it.rate[1] <= 0 THEN BuildPairs(Tail(rates_all), pairs)
             ELSE BuildPairs(
                    Tail(rates_all),
                    Put(Put(pairs, fwd, PairRecord(it.rate, MetaTs(it), it.source)),
                        inv, PairRecord(RatInv(it.rate), MetaTs(it), it.source)))

\* run_update appending to the history whatever PARSER_HISTORY_DISABLED says
RunUpdate_AlwaysAppend(hf, rf, e, source, fetch, t_now) ==
    LET sources == Sources(source)
        rates_all == FetchAll(sources, fetch, <<>>)
        app == AppendHistory(hf, HistoryRows(rates_all, t_now))
        pairs == BuildPairs(rates_all, EmptyMap)
        wr == WriteSnapshotPairs(EnsureRates(rf), pairs, IsoZ(t_now),
                                 EnvOn(e.snapshot_strict))
    IN  [raised |-> ~wr.ok,
         summary |-> [fiat |-> Counter(sources, fetch, "exchangerate"),
                      crypto |-> Counter(sources, fetch, "coingecko"),
                      added |-> app.ret],
         agg |-> rates_all,
         hfile |-> app.file,
         rfile |-> wr.file]

\* RatesUpdater.run_update: [raised, summary, agg, hfile, rfile]
\*   fetch : provider name -> fetch outcome;  e : os.environ
\* (with history writing disabled, exchange_rates.json is still created when
\* missing by the ensure_storage of the merge-mode snapshot read)
RunUpdate(hf, rf, e, source, fetch, t_now) ==
    LET sources == Sources(source)
        rates_all == FetchAll(sources, fetch, <<>>)
        history_off == EnvOn(e.history_disabled)
        app == AppendHistory(hf, HistoryRows(rates_all, t_now))
        strict == EnvOn(e.snapshot_strict)
        hf1 == IF ~history_off THEN app.file
               ELSE IF strict THEN hf
               ELSE EnsureHistory(hf)
        rf1 == IF history_off THEN rf ELSE EnsureRates(rf)
        added == IF history_off THEN 0 ELSE app.ret
        pairs == BuildPairs(rates_all, EmptyMap)
        wr == WriteSnapshotPairs(rf1, pairs, IsoZ(t_now), strict)
    IN  [raised |-> ~wr.ok,
         summary |-> [fiat |-> Counter(sources, fetch, "exchangerate"),
                      crypto |-> Counter(sources, fetch, "coingecko"),
                      added |-> added],
         agg |-> rates_all,
         hfile |-> hf1,
         rfile |-> wr.file]

\* ------------------------------------------------------ inputs of a run
\* request strings handed to get_rate
RequestCodes == {"USD", "EUR", " usd", "XXX"}

\* time_last_update_utc of the response, or the current time when it does not parse
FiatStamps(t) == {IsoZ(s) : s \in {0, t}}

\* ExchangeRateApiClient.fetch_rates: it raises, or returns BASE_CODE pairs that
\* share one timestamp
FiatOutcomes(t) ==
    {FetchFailed}
    \cup {Fetched(<<Item("USD_EUR", r, ts, "ExchangeRate-API")>>) :
            r \in {<<2, 1>>, <<0, 1>>}, ts \in FiatStamps(t)}
    \cup {Fetched(<<Item("USD_BTC", <<2, 1>>, IsoZ(t), "ExchangeRate-API")>>)}

\* CoinGeckoClient.fetch_rates: it raises, or returns TICKER_USD pairs stamped now
CryptoOutcomes(t) ==
    {FetchFailed, Fetched(<<Item("BTC_USD", <<3, 1>>, IsoZ(t), "CoinGecko")>>)}

SourceNames == {"", "coingecko"}

\* ------------------------------------------- processes outside the calls
\* the processes that may write rates.json at the same time
Writers == {"w1", "w2"}

\* a process that has not begun a write
IdleWriter == [pc |-> "idle", kind |-> "none", doc |-> MissingRates, fd |-> "none",
               clean |-> TRUE]
NoWriters == [w \in Writers |-> IdleWriter]

\* rates.json.tmp does not exist
NoTmp == [exists |-> FALSE, content |-> MissingRates]

\* ---------------------------------------------------------- the system
NoCall == [op |-> "none"]
NoFallback == [on |-> FALSE, key |-> "", t |-> 0, ret |-> NoRet]
DefaultEnv ==
    [snapshot_strict |-> "unset", history_disabled |-> "unset",
     auto_update |-> "unset", tz |-> 0]

\* the schedule command has not been given
SchedOff ==
    [pc |-> "off", source |-> "", requested |-> 0, interval |-> 0, cycle |-> "none",
     interrupted |-> FALSE, strict |-> FALSE, no_history |-> FALSE,
     prev |-> DefaultEnv]

Init ==
    /\ history_file \in {MissingHistory, CorruptHistory}
    /\ rates_file \in {MissingRates, CorruptRates, EmptyObjectRates, EmptySnapshot}
    /\ now = 0
    /\ env = DefaultEnv
    /\ fromiso_z \in BOOLEAN
    /\ last = NoCall
    /\ fb = NoFallback
    /\ ops = 0
    /\ writers = NoWriters
    /\ tmp_file = NoTmp
    /\ sched = SchedOff

\* time passes
Tick ==
    /\ now < MaxTime
    /\ now' = now + 1
    /\ UNCHANGED <<history_file, rates_file, env, fromiso_z, last, fb, ops>>
    /\ UNCHANGED <<writers, tmp_file, sched>>

\* a call of usecases.get_rate(frm, to)
CallGetRate(frm, to) ==
    /\ ops < MaxOps
    /\ LET r == GetRate(rates_file, frm, to, now, fromiso_z)
       IN  /\ rates_file' = r.file
           /\ last' = [op |-> "get_rate", frm |-> Normalize(frm), to |-> Normalize(to),
                       path |-> r.path, ret |-> r.ret, entry |-> r.entry]
           /\ fb' = IF r.path = "fallback"
                    THEN [on |-> TRUE, key |-> PairKey(Normalize(frm), Normalize(to)),
                          t |-> now, ret |-> r.ret]
                    ELSE IF r.file # rates_file THEN NoFallback ELSE fb
    /\ ops' = ops + 1
    /\ UNCHANGED <<history_file, now, env, fromiso_z>>
    /\ UNCHANGED <<writers, tmp_file, sched>>

\* the update-rates command: the per-run flags are put into os.environ, run_update
\* runs, and the previous values are put back when it returns
CmdUpdateRates(strict, no_history, source, fiat, crypto) ==
    /\ ops < MaxOps
    /\ LET e == [env EXCEPT
                   !.snapshot_strict = IF strict THEN "1" ELSE env.snapshot_strict,
                   !.history_disabled = IF no_history THEN "1" ELSE env.history_disabled]
           r == RunUpdate(history_file, rates_file, e, source,
                          [exchangerate |-> fiat, coingecko |-> crypto], now)
       IN  /\ history_file' = r.hfile
           /\ rates_file' = r.rfile
           /\ env' = IF r.raised THEN e ELSE env
           /\ last' = [op |-> "run_update", strict |-> EnvOn(e.snapshot_strict),
                       history_off |-> EnvOn(e.history_disabled),
                       raised |-> r.raised, agg |-> r.agg, summary |-> r.summary]
           /\ fb' = IF r.raised /\ r.rfile = rates_file THEN fb ELSE NoFallback
    /\ ops' = ops + 1
    /\ UNCHANGED <<now, fromiso_z>>
    /\ UNCHANGED <<writers, tmp_file, sched>>

\* the clear-history command
CmdClearHistory ==
    /\ ops < MaxOps
    /\ LET r == ClearHistory(history_file)
       IN  /\ history_file' = r.file
           /\ last' = [op |-> "clear_history", ret |-> r.ret]
    /\ rates_file' = EnsureRates(rates_file)
    /\ fb' = IF rates_file' # rates_file THEN NoFallback ELSE fb
    /\ ops' = ops + 1
    /\ UNCHANGED <<now, env, fromiso_z>>
    /\ UNCHANGED <<writers, tmp_file, sched>>

Next ==
    \/ Tick
    \/ \E frm \in RequestCodes, to \in RequestCodes : CallGetRate(frm, to)
    \/ \E strict \in BOOLEAN, no_history \in BOOLEAN, source \in SourceNames :
          \E fiat \in (IF source = "" THEN FiatOutcomes(now) ELSE {FetchFailed}),
             crypto \in CryptoOutcomes(now) :
             CmdUpdateRates(strict, no_history, source, fiat, crypto)
    \/ CmdClearHistory

Spec == Init /\ [][Next]_vars

\* =================================================== the history ledger alone
\* append_history and clear_history called directly, with any batch.
LedgerRecord(id, rate) ==
    [id |-> id, from_currency |-> "USD", to_currency |-> "EUR", rate |-> rate,
     timestamp |-> IsoZ(0), source |-> "ExchangeRate-API"]

\* records of a batch: an empty id, a missing id, the text "None", and one id
\* carried by two different records
BatchRecords ==
    {LedgerRecord("", One), LedgerRecord(IdMissing, One), LedgerRecord("None", One),
     LedgerRecord("USD_EUR_0Z", One), LedgerRecord("USD_EUR_0Z", <<2, 1>>)}

Batches == UNION {[1..n -> BatchRecords] : n \in 0..MaxBatch}

InitLedger ==
    /\ history_file \in {MissingHistory, CorruptHistory, HistoryList(<<>>)}
    /\ rates_file \in {MissingRates, EmptySnapshot}
    /\ now = 0
    /\ env = DefaultEnv
    /\ fromiso_z = TRUE
    /\ last = NoCall
    /\ fb = NoFallback
    /\ ops = 0
    /\ writers = NoWriters
    /\ tmp_file = NoTmp
    /\ sched = SchedOff

\* a call of storage.append_history(batch)
CallAppendHistory(batch) ==
    /\ LET r == AppendHistory(history_file, batch)
       IN  /\ history_file' = r.file
           /\ last' = [op |-> "append_history", batch |-> batch, ret |-> r.ret,
                       before |-> history_file,
                       again |-> (last.op = "append_history" /\ last.batch = batch)]
    /\ rates_file' = EnsureRates(rates_file)
    /\ UNCHANGED <<now, env, fromiso_z, fb, ops>>
    /\ UNCHANGED <<writers, tmp_file, sched>>

\* a call of storage.clear_history()
CallClearHistory ==
    /\ LET r == ClearHistory(history_file)
       IN  /\ history_file' = r.file
           /\ last' = [op |-> "clear_history", ret |-> r.ret, before |-> history_file]
    /\ rates_file' = EnsureRates(rates_file)
    /\ UNCHANGED <<now, env, fromiso_z, fb, ops>>
    /\ UNCHANGED <<writers, tmp_file, sched>>

NextLedger ==
    \/ \E batch \in Batches : CallAppendHistory(batch)
    \/ CallClearHistory

SpecLedger == InitLedger /\ [][NextLedger]_vars

\* C1: appending a batch and then the same batch again returns 0 the second
\* time, and the second call leaves the ledger file as it was.
C1_SecondAppendAddsNothing ==
    (last.op = "append_history" /\ last.again)
        => (last.ret = 0 /\ history_file = last.before)

\* C1 witness: a batch that added records was appended a second time
C1_Witness ==
    /\ last.op = "append_history"
    /\ last.again
    /\ history_file.st = "list"
    /\ \E i \in 1..Len(last.batch) : \E j \in 1..Len(history_file.recs) :
          history_file.recs[j] = last.batch[i]

\* C2: no two stored history records have the same id.
C2_NoDuplicateIds ==
    history_file.st = "list"
        => \A i, j \in 1..Len(history_file.recs) :
              i # j => StrId(history_file.recs[i]) # StrId(history_file.recs[j])

\* C2 witness: a batch that repeats an id was appended and the ledger holds
\* two records
C2_Witness ==
    /\ last.op = "append_history"
    /\ last.ret > 0
    /\ \E i, j \in 1..Len(last.batch) :
          i # j /\ StrId(last.batch[i]) = StrId(last.batch[j]) /\ last.batch[i].id # ""
    /\ Len(history_file.recs) >= 2

\* =================================================== the snapshot store alone
\* write_snapshot_pairs called directly, with any pairs map, under any value
\* of PARSER_SNAPSHOT_STRICT.
Second1 == IsoZ(TicksPerSecond)

\* incoming records for BTC_USD: two rates at two instants, and timestamps
\* that do not parse or are missing
StoreRecordsA ==
    {PairRecord(r, ts, "CoinGecko") :
        r \in {One, <<2, 1>>}, ts \in {IsoZ(0), Second1, BadTs}}
    \cup {PairRecord(One, NoTs, "CoinGecko")}

StoreRecordsB ==
    {PairRecord(One, IsoZ(0), "ExchangeRate-API"),
     PairRecord(<<2, 1>>, Second1, "ExchangeRate-API")}

NewPairsInputs ==
    {EmptyMap}
    \cup {[k \in {"BTC_USD"} |-> a] : a \in StoreRecordsA}
    \cup {[k \in {"USD_EUR"} |-> b] : b \in StoreRecordsB}
    \cup {[k \in {"BTC_USD", "USD_EUR"} |-> IF k = "BTC_USD" THEN a ELSE b] :
            a \in StoreRecordsA, b \in StoreRecordsB}

StrictValues == {"unset", "0", "1"}

InitStore ==
    /\ history_file = MissingHistory
    /\ rates_file \in {MissingRates, CorruptRates, EmptyObjectRates, EmptySnapshot}
    /\ now = 0
    /\ env = DefaultEnv
    /\ fromiso_z = TRUE
    /\ last = NoCall
    /\ fb = NoFallback
    /\ ops = 0
    /\ writers = NoWriters
    /\ tmp_file = NoTmp
    /\ sched = SchedOff

\* os.environ["PARSER_SNAPSHOT_STRICT"] is set or removed
SetEnvStrict(v) ==
    /\ env' = [env EXCEPT !.snapshot_strict = v]
    /\ UNCHANGED <<history_file, rates_file, now, fromiso_z, last, fb, ops>>
    /\ UNCHANGED <<writers, tmp_file, sched>>

\* a call of storage.write_snapshot_pairs(new_pairs, last_refresh)
CallWriteSnapshotPairs(new_pairs, last_refresh) ==
    /\ LET strict == EnvOn(env.snapshot_strict)
           r == WriteSnapshotPairs(rates_file, new_pairs, last_refresh, strict)
       IN  /\ rates_file' = r.file
           /\ last' = [op |-> "write_snapshot_pairs", new_pairs |-> new_pairs,
                       last_refresh |-> last_refresh, strict |-> strict,
                       ok |-> r.ok, before |-> rates_file]
    /\ UNCHANGED <<history_file, now, env, fromiso_z, fb, ops>>
    /\ UNCHANGED <<writers, tmp_file, sched>>

NextStore ==
    \/ \E v \in StrictValues : SetEnvStrict(v)
    \/ \E new_pairs \in NewPairsInputs, last_refresh \in {IsoZ(0), Second1} :
          CallWriteSnapshotPairs(new_pairs, last_refresh)

SpecStore == InitStore /\ [][NextStore]_vars

\* the pairs a snapshot file holds: none when it is missing, unparseable or
\* has no "pairs" section
StoredPairs(f) == IF f.st = "obj" /\ f.has_pairs THEN f.pairs ELSE EmptyMap

\* the instant of a timestamp; one that is missing or does not parse is the
\* minimum
Instant(ts) == IF ts[1] \in {"Z", "off"} THEN ts[2] ELSE -1

\* C3: a merge-mode write that completes leaves, under every key, the
\* incoming record when the key is incoming and either not stored or
\* incoming.updated_at >= stored.updated_at, and the stored record otherwise.
C3_MergeByFreshness ==
    (last.op = "write_snapshot_pairs" /\ ~last.strict /\ last.ok)
        => LET old == StoredPairs(last.before)
               new == last.new_pairs
               res == StoredPairs(rates_file)
           IN  /\ rates_file.st = "obj" /\ rates_file.has_pairs
               /\ DOMAIN res = (DOMAIN old) \cup (DOMAIN new)
               /\ \A k \in DOMAIN res :
                     res[k] = IF k \in DOMAIN new
                                 /\ (k \notin DOMAIN old
                                     \/ Instant(new[k].updated_at)
                                          >= Instant(old[k].updated_at))
                              THEN new[k]
                              ELSE old[k]

\* C3 witness: a merge in which an older incoming BTC_USD left the stored
\* rate, and one in which USD_EUR, absent from the incoming map, was retained
C3_Witness ==
    /\ last.op = "write_snapshot_pairs" /\ ~last.strict /\ last.ok
    /\ "BTC_USD" \in DOMAIN last.new_pairs
    /\ "BTC_USD" \in DOMAIN StoredPairs(last.before)
    /\ Instant(last.new_pairs["BTC_USD"].updated_at)
          < Instant(StoredPairs(last.before)["BTC_USD"].updated_at)
    /\ last.new_pairs["BTC_USD"].rate # StoredPairs(last.before)["BTC_USD"].rate
    /\ "USD_EUR" \notin DOMAIN last.new_pairs
    /\ "USD_EUR" \in DOMAIN StoredPairs(rates_file)

\* C4: after a strict-mode write the stored pairs map is exactly new_pairs
\* and last_refresh is the timestamp passed.
C4_StrictReplaces ==
    (last.op = "write_snapshot_pairs" /\ last.strict)
        => /\ rates_file.st = "obj" /\ rates_file.has_pairs
           /\ rates_file.pairs = last.new_pairs
           /\ rates_file.last_refresh = last.last_refresh

\* C4 witness: a strict write over a snapshot that held a key the incoming map
\* lacks and a newer record under a key it has
C4_Witness ==
    /\ last.op = "write_snapshot_pairs" /\ last.strict
    /\ "USD_EUR" \in DOMAIN StoredPairs(last.before)
    /\ "USD_EUR" \notin DOMAIN last.new_pairs
    /\ "BTC_USD" \in DOMAIN last.new_pairs
    /\ "BTC_USD" \in DOMAIN StoredPairs(last.before)
    /\ Instant(last.new_pairs["BTC_USD"].updated_at)
          < Instant(StoredPairs(last.before)["BTC_USD"].updated_at)

\* ============================================ claims about the whole system
\* the pair records a snapshot file holds, in the layout get_rate reads
CachedPairs(f) ==
    IF f.st # "obj" THEN EmptyMap ELSE IF f.has_pairs THEN f.pairs ELSE f.top

InverseKey(pair) == SplitPair(pair)[2] \o "_" \o SplitPair(pair)[1]

\* the aggregate entry i was written in both directions with its own
\* rate, timestamp and source
BothDirectionsStored(f, it) ==
    LET P == StoredPairs(f)
        inv == InverseKey(it.pair)
    IN  /\ it.pair \in DOMAIN P
        /\ P[it.pair] = PairRecord(it.rate, it.ts, it.source)
        /\ inv \in DOMAIN P
        /\ P[inv] = PairRecord(RatInv(it.rate), it.ts, it.source)

\* C5 as claimed: after a run whose aggregate holds X_Y with rate r > 0,
\* timestamp T and source S, the snapshot holds X_Y = r and Y_X = 1/r, both
\* with T and S, whatever it held before.
C5_AsClaimed ==
    (last.op = "run_update" /\ ~last.raised)
        => \A i \in 1..Len(last.agg) :
              last.agg[i].rate[1] > 0 => BothDirectionsStored(rates_file, last.agg[i])

\* C5 amended: the same, for X # Y with no positive-rate Y_X later in the
\* aggregate, when the run is strict or when neither X_Y nor Y_X was stored
\* with an updated_at later than T.
C5_BothDirections ==
    [][(ops' # ops /\ last'.op = "run_update" /\ ~last'.raised)
        => \A i \in 1..Len(last'.agg) :
              LET it == last'.agg[i]
                  inv == InverseKey(it.pair)
                  old == StoredPairs(rates_file)
              IN  (/\ it.rate[1] > 0
                   /\ inv # it.pair
                   /\ \A j \in (i + 1)..Len(last'.agg) :
                         ~(last'.agg[j].pair = inv /\ last'.agg[j].rate[1] > 0)
                   /\ \/ last'.strict
                      \/ \A k \in {it.pair, inv} :
                            k \in DOMAIN old
                               => Instant(old[k].updated_at) <= Instant(it.ts))
                  => BothDirectionsStored(rates_file', it)]_vars

\* C5 witness: a merge-mode run stored an aggregate entry in both directions
\* next to a record the resolver had written before the run
C5_Witness ==
    /\ last.op = "run_update" /\ ~last.raised /\ ~last.strict
    /\ \E i \in 1..Len(last.agg) :
          last.agg[i].rate[1] > 0 /\ BothDirectionsStored(rates_file, last.agg[i])
    /\ \E k \in DOMAIN StoredPairs(rates_file) :
          StoredPairs(rates_file)[k].source = "LocalStub"

\* C6 as claimed: whenever X_Y and Y_X are both in the snapshot their rates
\* multiply to 1 (fractions in lowest terms: one is the other turned over).
C6_AsClaimed ==
    LET P == StoredPairs(rates_file)
    IN  \A k \in DOMAIN P :
           InverseKey(k) \in DOMAIN P => P[InverseKey(k)].rate = RatInv(P[k].rate)

\* table[A] / table[B] over the fallback table
TableRate(f, t) == RatDiv(DefaultRatesToUsd[f], DefaultRatesToUsd[t])

\* a get_rate call for two distinct supported codes is being made
ResolveStep ==
    /\ ops' # ops
    /\ last'.op = "get_rate"
    /\ last'.frm # last'.to
    /\ last'.frm \in Registry /\ last'.to \in Registry

\* C7: when the stored A_B record is older than the TTL, get_rate returns the
\* table rate under a fresh timestamp, not the stored record, and the stored
\* A_B record then has the returned rate and timestamp.
C7_StaleRefetched ==
    [][ResolveStep
        => LET key == PairKey(last'.frm, last'.to)
               old == CachedPairs(rates_file)
               new == CachedPairs(rates_file')
           IN  (/\ key \in DOMAIN old
                /\ Instant(old[key].updated_at) >= 0
                /\ now - Instant(old[key].updated_at) > MaxAge)
               => /\ last'.path = "fallback"
                  /\ last'.ret.rate = TableRate(last'.frm, last'.to)
                  /\ last'.ret.updated_at = IsoOffset(now)
                  /\ last'.ret.updated_at # old[key].updated_at
                  /\ key \in DOMAIN new
                  /\ new[key].rate = last'.ret.rate
                  /\ new[key].updated_at = last'.ret.updated_at]_vars

\* C7 witness: get_rate has just replaced a stored record older than the TTL
C7_Witness ==
    /\ last.op = "get_rate" /\ last.path = "fallback"
    /\ last.entry.present
    /\ last.ret.updated_at = IsoOffset(now)
    /\ Instant(last.entry.rec.updated_at) >= 0
    /\ now - Instant(last.entry.rec.updated_at) > MaxAge
    /\ last.entry.rec.rate # last.ret.rate

\* C8 as claimed: when A_B is stored with now - updated_at <= TTL, get_rate
\* returns the stored rate and updated_at and leaves the snapshot unchanged.
C8_AsClaimed ==
    [][ResolveStep
        => LET key == PairKey(last'.frm, last'.to)
               old == CachedPairs(rates_file)
           IN  (/\ key \in DOMAIN old
                /\ Instant(old[key].updated_at) >= 0
                /\ now - Instant(old[key].updated_at) <= MaxAge)
               => /\ last'.path = "hit"
                  /\ last'.ret.rate = old[key].rate
                  /\ last'.ret.updated_at = old[key].updated_at
                  /\ rates_file' = rates_file]_vars

\* C9 as claimed: after a fallback at time t, a get_rate of the same pair at
\* t' with t' - t <= TTL and no snapshot write in between is a cache hit with
\* the same rate and updated_at, and writes nothing.
C9_AsClaimed ==
    [][(ResolveStep /\ fb.on /\ fb.key = PairKey(last'.frm, last'.to)
        /\ now - fb.t <= MaxAge)
        => /\ last'.path = "hit"
           /\ last'.ret.rate = fb.ret.rate
           /\ last'.ret.updated_at = fb.ret.updated_at
           /\ rates_file' = rates_file]_vars

\* C9 amended: the same with the window counted from the updated_at the
\* fallback returned, which is t cut to the whole second.
C9_HitWithinTtlOfStamp ==
    [][(ResolveStep /\ fb.on /\ fb.key = PairKey(last'.frm, last'.to)
        /\ now - Instant(fb.ret.updated_at) <= MaxAge)
        => /\ last'.path = "hit"
           /\ last'.ret.rate = fb.ret.rate
           /\ last'.ret.updated_at = fb.ret.updated_at
           /\ rates_file' = rates_file]_vars

\* C9 witness: a cache hit on a record a fallback wrote earlier into a file
\* that has no pairs section
C9_Witness ==
    /\ last.op = "get_rate" /\ last.path = "hit"
    /\ fb.on /\ fb.key = PairKey(last.frm, last.to)
    /\ last.ret.updated_at = fb.ret.updated_at
    /\ now > fb.t
    /\ ~rates_file.has_pairs

\* C10: get_rate(X, X) for a supported X returns rate 1.0 with source
\* "local" and leaves rates.json as it is, whatever its state.
C10_SameCurrency ==
    [][(ops' # ops /\ last'.op = "get_rate" /\ last'.frm = last'.to
        /\ last'.frm \in Registry)
        => /\ last'.path = "same"
           /\ last'.ret.rate = One
           /\ last'.ret.source = "local"
           /\ rates_file' = rates_file]_vars

\* C10 witness: get_rate(X, X) answered over an unparseable rates.json
C10_Witness ==
    /\ last.op = "get_rate" /\ last.path = "same"
    /\ last.ret.rate = One
    /\ rates_file.st = "corrupt"

\* ======================================================= the resolver alone
\* get_rate called with any request strings over a rates.json that is missing,
\* unparseable, empty, or as an orchestrator run or an earlier get_rate left it.
ResolverCodes == {"USD", "EUR", "GBP", "", " usd"}

\* what ExchangeRate-API reported in the run that wrote the snapshot: GBP is one
\* of FIAT_CURRENCIES and is not in the currency registry
ResolverFiat ==
    {Fetched(<<Item("USD_EUR", <<2, 1>>, IsoZ(0), "ExchangeRate-API"),
               Item("USD_GBP", <<3, 4>>, IsoZ(0), "ExchangeRate-API")>>)}

ResolverFiles ==
    {MissingRates, CorruptRates, EmptyObjectRates, EmptySnapshot}
    \cup {RunUpdate(MissingHistory, MissingRates, DefaultEnv, "",
                    [exchangerate |-> f, coingecko |-> FetchFailed], 0).rfile :
            f \in ResolverFiat}
    \cup {GetRate(MissingRates, "USD", "EUR", 0, TRUE).file}

InitResolver ==
    /\ history_file = MissingHistory
    /\ rates_file \in ResolverFiles
    /\ now = 0
    /\ env = DefaultEnv
    /\ fromiso_z \in BOOLEAN
    /\ last = NoCall
    /\ fb = NoFallback
    /\ ops = 0
    /\ writers = NoWriters
    /\ tmp_file = NoTmp
    /\ sched = SchedOff

NextResolver ==
    \/ Tick
    \/ \E frm \in ResolverCodes, to \in ResolverCodes : CallGetRate(frm, to)

SpecResolver == InitResolver /\ [][NextResolver]_vars

\* C11: get_rate with a code that is not in the registry (an empty one
\* included) fails with the unknown-currency error and leaves rates.json as it
\* is, also when the two codes are equal and when a fresh record is stored.
C11_UnknownCurrency ==
    [][(ops' # ops /\ last'.op = "get_rate"
        /\ (last'.frm \notin Registry \/ last'.to \notin Registry))
        => /\ last'.path = "unknown_currency"
           /\ rates_file' = rates_file]_vars

\* C11 witness: the unknown-currency error for USD -> GBP while a fresh
\* USD_GBP record is stored
C11_Witness ==
    /\ last.op = "get_rate" /\ last.path = "unknown_currency"
    /\ last.frm = "USD" /\ last.to = "GBP"
    /\ "USD_GBP" \in DOMAIN CachedPairs(rates_file)
    /\ CachedPairs(rates_file)["USD_GBP"].updated_at[1] = "Z"
    /\ now - CachedPairs(rates_file)["USD_GBP"].updated_at[2] <= MaxAge
    /\ fromiso_z

\* ------------------------------------------------ claims about one run
\* the keys of the aggregate and their inverse keys
KeysBothWays(agg) ==
    {agg[i].pair : i \in 1..Len(agg)} \cup {InverseKey(agg[i].pair) : i \in 1..Len(agg)}

\* a run over an empty snapshot and an empty ledger whose aggregate has
\* positive rates only and no pair that is the inverse of another
CleanFirstRun ==
    /\ ops' # ops /\ last'.op = "run_update"
    /\ StoredPairs(rates_file) = EmptyMap
    /\ history_file.recs = <<>>
    /\ \A i \in 1..Len(last'.agg) :
          /\ last'.agg[i].rate[1] > 0
          /\ \A j \in 1..Len(last'.agg) :
                j # i => last'.agg[j].pair # InverseKey(last'.agg[i].pair)

\* what C12 promises of such a run
CleanRunResult ==
    /\ ~last'.raised
    /\ DOMAIN StoredPairs(rates_file') = KeysBothWays(last'.agg)
    /\ Len(history_file'.recs) = Len(last'.agg)
    /\ last'.summary.added = Len(last'.agg)
    /\ last'.summary.fiat + last'.summary.crypto = Len(last'.agg)

\* C12 as claimed: from an empty snapshot and an empty ledger, a run whose
\* providers report n pairs (distinct keys, positive rates, none the inverse
\* of another) leaves exactly those keys and their inverses in the snapshot,
\* n records in the ledger, and reports added = n.
C12_AsClaimed == [][CleanFirstRun => CleanRunResult]_vars

\* C12 amended: the same for a run that does not have history writing
\* disabled.
C12_CleanRun == [][(CleanFirstRun /\ ~last'.history_off) => CleanRunResult]_vars

\* C12 witness: the first run stored two provider pairs, four snapshot keys
\* and two ledger records
C12_Witness ==
    /\ ops = 1 /\ last.op = "run_update" /\ ~last.history_off
    /\ Len(last.agg) = 2 /\ last.summary.added = 2
    /\ Len(history_file.recs) = 2
    /\ DOMAIN StoredPairs(rates_file) = {"USD_EUR", "EUR_USD", "BTC_USD", "USD_BTC"}

\* =================================================== the orchestrator alone
\* run_update called directly, for any source selection, any outcome of the
\* two providers and any value of the two environment flags.
UpdaterSources == {"", "exchangerate", "coingecko"}

\* ExchangeRate-API: it raises, or reports one pair (with a rate of zero, or
\* under an old time_last_update_utc) or two pairs
UpdaterFiat(t) ==
    {FetchFailed,
     Fetched(<<Item("USD_EUR", <<2, 1>>, IsoZ(0), "ExchangeRate-API")>>),
     Fetched(<<Item("USD_EUR", <<0, 1>>, IsoZ(t), "ExchangeRate-API")>>),
     Fetched(<<Item("USD_EUR", <<4, 1>>, IsoZ(t), "ExchangeRate-API"),
               Item("USD_GBP", <<3, 4>>, IsoZ(t), "ExchangeRate-API")>>)}

\* CoinGecko also answering with no prices
UpdaterCrypto(t) == CryptoOutcomes(t) \cup {Fetched(<<>>)}

FlagValues == {"unset", "1"}

InitUpdater ==
    /\ history_file \in {MissingHistory, CorruptHistory}
    /\ rates_file \in {MissingRates, CorruptRates, EmptyObjectRates, EmptySnapshot}
    /\ now = 0
    /\ env = DefaultEnv
    /\ fromiso_z = TRUE
    /\ last = NoCall
    /\ fb = NoFallback
    /\ ops = 0
    /\ writers = NoWriters
    /\ tmp_file = NoTmp
    /\ sched = SchedOff

\* PARSER_SNAPSHOT_STRICT and PARSER_HISTORY_DISABLED are set or removed
SetEnvFlags(strict, history_disabled) ==
    /\ env' = [env EXCEPT !.snapshot_strict = strict,
                          !.history_disabled = history_disabled]
    /\ env' # env
    /\ UNCHANGED <<history_file, rates_file, now, fromiso_z, last, fb, ops>>
    /\ UNCHANGED <<writers, tmp_file, sched>>

\* a call of run_update(source)
CallRunUpdate(source, fiat, crypto) ==
    /\ ops < MaxOps
    /\ LET fetch == [exchangerate |-> fiat, coingecko |-> crypto]
           r == RunUpdate(history_file, rates_file, env, source, fetch, now)
       IN  /\ history_file' = r.hfile
           /\ rates_file' = r.rfile
           /\ last' = [op |-> "run_update", source |-> source, fetch |-> fetch,
                       strict |-> EnvOn(env.snapshot_strict),
                       history_off |-> EnvOn(env.history_disabled),
                       calls |-> FetchCalls(Sources(source), fetch, <<>>),
                       raised |-> r.raised, summary |-> r.summary]
    /\ ops' = ops + 1
    /\ UNCHANGED <<now, env, fromiso_z, fb>>
    /\ UNCHANGED <<writers, tmp_file, sched>>

NextUpdater ==
    \/ Tick
    \/ \E strict \in FlagValues, history_disabled \in FlagValues :
          SetEnvFlags(strict, history_disabled)
    \/ \E source \in UpdaterSources :
          \E fiat \in (IF source = "coingecko" THEN {FetchFailed} ELSE UpdaterFiat(now)),
             crypto \in (IF source = "exchangerate" THEN {FetchFailed}
                         ELSE UpdaterCrypto(now)) :
             CallRunUpdate(source, fiat, crypto)

SpecUpdater == InitUpdater /\ [][NextUpdater]_vars

\* the ids stored in the ledger
LedgerIds(hf) == {hf.recs[i].id : i \in 1..Len(hf.recs)}

\* the history id of a provider item
ItemId(it) == it.pair \o "_" \o TsText(it.ts)

\* a run over both providers in which exactly one fetch raised
PartialFailureStep ==
    /\ ops' # ops /\ last'.op = "run_update"
    /\ last'.source = ""
    /\ last'.fetch.exchangerate.ok # last'.fetch.coingecko.ok

\* the items of the provider that answered, and the two summary counters
GoodItems(l) ==
    IF l.fetch.exchangerate.ok THEN l.fetch.exchangerate.items
    ELSE l.fetch.coingecko.items
GoodCounter(l) == IF l.fetch.exchangerate.ok THEN l.summary.fiat ELSE l.summary.crypto
FailedCounter(l) == IF l.fetch.exchangerate.ok THEN l.summary.crypto ELSE l.summary.fiat

NonObjectRates ==
    [st |-> "nonobj", has_pairs |-> FALSE, pairs |-> EmptyMap, top |-> EmptyMap,
     source |-> NoSource, last_refresh |-> NoTs]

\* read_snapshot without the try/except around the parse
ReadSnapshotCall_NoCatch(rf) ==
    LET ens == EnsureRates(rf)
    IN  [raised |-> ens.st = "corrupt", ret |-> ReadSnapshot(ens), file |-> ens]

\* storage.read_snapshot as a call: [raised, ret, file]; ensure_storage creates
\* a missing file, a parse error or a non-dict value falls through to the
\* empty snapshot
ReadSnapshotCall(rf) ==
    LET ens == EnsureRates(rf)
    IN  [raised |-> FALSE, ret |-> ReadSnapshot(ens), file |-> ens]

ReaderFiles ==
    {MissingRates, CorruptRates, NonObjectRates, EmptyObjectRates, EmptySnapshot,
     GetRate(MissingRates, "USD", "EUR", 0, TRUE).file}

InitReader ==
    /\ history_file = MissingHistory
    /\ rates_file \in ReaderFiles
    /\ now = 0
    /\ env = DefaultEnv
    /\ fromiso_z = TRUE
    /\ last = NoCall
    /\ fb = NoFallback
    /\ ops = 0
    /\ writers = NoWriters
    /\ tmp_file = NoTmp
    /\ sched = SchedOff

\* a call of read_snapshot()
CallReadSnapshot ==
    /\ LET r == ReadSnapshotCall(rates_file)
       IN  /\ rates_file' = r.file
           /\ last' = [op |-> "read_snapshot", raised |-> r.raised, ret |-> r.ret,
                       before |-> rates_file]
    /\ history_file' = EnsureHistory(history_file)
    /\ UNCHANGED <<now, env, fromiso_z, fb, ops>>
    /\ UNCHANGED <<writers, tmp_file, sched>>

NextReader ==
    \/ CallReadSnapshot
    \/ \E new_pairs \in NewPairsInputs, last_refresh \in {IsoZ(0), Second1} :
          CallWriteSnapshotPairs(new_pairs, last_refresh)

SpecReader == InitReader /\ [][NextReader]_vars

\* C14: read_snapshot never fails; it returns {pairs: {}, last_refresh: null}
\* when rates.json is missing or does not parse as a JSON object, and the
\* stored object otherwise.
C14_ReadSnapshotTotal ==
    (last.op = "read_snapshot")
        => /\ ~last.raised
           /\ last.before.st \in {"missing", "corrupt", "nonobj"}
                 => last.ret = SnapshotObject(EmptyMap, NoTs)
           /\ last.before.st = "obj" => last.ret = last.before

\* C14 witness: read_snapshot answered the empty snapshot over an unparseable
\* rates.json and left the file alone
C14_Witness ==
    /\ last.op = "read_snapshot" /\ ~last.raised
    /\ last.before.st = "corrupt"
    /\ last.ret = SnapshotObject(EmptyMap, NoTs)
    /\ rates_file.st = "corrupt"

\* C15 as claimed: over an unparseable rates.json, get_rate(A, B) for distinct
\* supported A and B treats the cache as empty and returns the rate derived
\* from the fallback table instead of failing.
C15_AsClaimed ==
    [][(ResolveStep /\ rates_file.st = "corrupt")
        => /\ last'.path = "fallback"
           /\ last'.ret.rate = TableRate(last'.frm, last'.to)]_vars

\* ============================================ concurrent writers and readers
\* Processes writing rates.json at the same time, step by step: the
\* orchestrator through storage._atomic_write_json (write rates.json.tmp, then
\* os.replace), the resolver through DatabaseManager._write_json (write_text
\* on rates.json itself).  A writer's open file follows the inode: after
\* another process renames rates.json.tmp into place, it is writing the
\* published file.
\*   pc    : idle, ready, opened, half, written, done, failed
\*   fd    : which file the open descriptor now is: tmp, rates, orphan
\*   clean : no other process has truncated or written that file since the open

\* a file of zero bytes, as open(..., "w") leaves it
BlankFile == [MissingRates EXCEPT !.st = "blank"]

\* a file holding part of a document, or bytes of two documents
TornFile == [MissingRates EXCEPT !.st = "torn"]

\* json.loads in read_snapshot: empty or partial text does not parse
AsStorageReads(f) == IF f.st \in {"blank", "torn"} THEN CorruptRates ELSE f

\* DatabaseManager._read_json: json.loads(text) if text else None
AsResolverReads(f) ==
    IF f.st = "torn" THEN CorruptRates
    ELSE IF f.st = "blank" THEN EmptyObjectRates
    ELSE f

\* the pairs a concurrent orchestrator run brings
WriterPairs ==
    {[k \in {"BTC_USD"} |-> PairRecord(<<3, 1>>, IsoZ(0), "CoinGecko")],
     [k \in {"USD_EUR"} |-> PairRecord(<<2, 1>>, IsoZ(0), "ExchangeRate-API")]}

InitWriters ==
    /\ history_file = MissingHistory
    /\ rates_file \in
          {EmptySnapshot}
          \cup {WriteSnapshotPairs(EmptySnapshot, p, IsoZ(0), FALSE).file : p \in WriterPairs}
    /\ now = 0
    /\ env = DefaultEnv
    /\ fromiso_z = TRUE
    /\ last = NoCall
    /\ fb = NoFallback
    /\ ops = 0
    /\ writers = NoWriters
    /\ tmp_file = NoTmp
    /\ sched = SchedOff

\* every other process holding the same file open loses its clean view
Disturb(w, fd) ==
    [v \in Writers |->
        IF v # w /\ writers[v].fd = fd /\ fd \in {"tmp", "rates"}
        THEN [writers[v] EXCEPT !.clean = FALSE]
        ELSE writers[v]]

\* write_snapshot_pairs up to its call of _atomic_write_json (merge mode):
\* the document is computed from what rates.json holds now
BeginAtomicWrite(w, new_pairs) ==
    /\ writers[w].pc = "idle"
    /\ writers' = [writers EXCEPT ![w] =
          [pc |-> "ready", kind |-> "atomic",
           doc |-> WriteSnapshotPairs(AsStorageReads(rates_file), new_pairs,
                                      IsoZ(now), FALSE).file,
           fd |-> "none", clean |-> TRUE]]
    /\ UNCHANGED <<history_file, rates_file, now, env, fromiso_z, last, fb, ops,
                   tmp_file, sched>>

\* get_rate up to its call of _save_rates: on the fallback path there is a
\* document to write, on every other path there is none
BeginDirectWrite(w, frm, to) ==
    /\ writers[w].pc = "idle"
    /\ LET r == GetRate(AsResolverReads(rates_file), frm, to, now, fromiso_z)
       IN  writers' = [writers EXCEPT ![w] =
              [pc |-> IF r.path = "fallback" THEN "ready" ELSE "done",
               kind |-> "direct", doc |-> r.file, fd |-> "none", clean |-> TRUE]]
    /\ UNCHANGED <<history_file, rates_file, now, env, fromiso_z, last, fb, ops,
                   tmp_file, sched>>

\* write_text opens with truncation: rates.json.tmp (created if absent) for
\* the orchestrator, rates.json itself for the resolver
OpenForWrite(w) ==
    /\ writers[w].pc = "ready"
    /\ LET fd == IF writers[w].kind = "atomic" THEN "tmp" ELSE "rates"
       IN  /\ writers' = [Disturb(w, fd) EXCEPT ![w].pc = "opened", ![w].fd = fd,
                                                ![w].clean = TRUE]
           /\ IF fd = "tmp"
              THEN /\ tmp_file' = [exists |-> TRUE, content |-> BlankFile]
                   /\ UNCHANGED rates_file
              ELSE /\ rates_file' = BlankFile
                   /\ UNCHANGED tmp_file
    /\ UNCHANGED <<history_file, now, env, fromiso_z, last, fb, ops, sched>>

\* one write() of the buffered text: the first leaves part of the document,
\* the second completes it; when another process has touched the same file
\* in between, the result depends on the two lengths
WriteChunk(w, mixed) ==
    /\ writers[w].pc \in {"opened", "half"}
    /\ LET fd == writers[w].fd
           content == IF writers[w].pc = "opened" THEN TornFile
                      ELSE IF writers[w].clean \/ ~mixed THEN writers[w].doc
                      ELSE TornFile
       IN  /\ writers[w].clean => ~mixed
           /\ writers' = [Disturb(w, fd) EXCEPT
                            ![w].pc = IF writers[w].pc = "opened" THEN "half"
                                      ELSE "written"]
           /\ IF fd = "tmp"
              THEN /\ tmp_file' = [tmp_file EXCEPT !.content = content]
                   /\ UNCHANGED rates_file
              ELSE IF fd = "rates"
              THEN /\ rates_file' = content
                   /\ UNCHANGED tmp_file
              ELSE UNCHANGED <<rates_file, tmp_file>>
    /\ UNCHANGED <<history_file, now, env, fromiso_z, last, fb, ops, sched>>

\* the end of the write: close for the resolver; os.replace(tmp, path) for
\* the orchestrator, which raises FileNotFoundError when rates.json.tmp has
\* already been renamed by another process
FinishWrite(w) ==
    /\ writers[w].pc = "written"
    /\ IF writers[w].kind = "direct"
       THEN /\ writers' = [writers EXCEPT ![w].pc = "done", ![w].fd = "none"]
            /\ UNCHANGED <<rates_file, tmp_file>>
       ELSE IF ~tmp_file.exists
       THEN /\ writers' = [writers EXCEPT ![w].pc = "failed", ![w].fd = "none"]
            /\ UNCHANGED <<rates_file, tmp_file>>
       ELSE /\ rates_file' = tmp_file.content
            /\ tmp_file' = NoTmp
            /\ writers' = [v \in Writers |->
                  IF v = w THEN [writers[v] EXCEPT !.pc = "done", !.fd = "none"]
                  ELSE IF writers[v].fd = "tmp" THEN [writers[v] EXCEPT !.fd = "rates"]
                  ELSE IF writers[v].fd = "rates" THEN [writers[v] EXCEPT !.fd = "orphan"]
                  ELSE writers[v]]
    /\ UNCHANGED <<history_file, now, env, fromiso_z, last, fb, ops, sched>>

\* a reader opens rates.json and reads what is there
ReadRatesFile ==
    /\ last' = [op |-> "read", seen |-> rates_file,
                started |-> {w \in Writers : writers[w].pc # "idle"}]
    /\ UNCHANGED <<history_file, rates_file, now, env, fromiso_z, fb, ops,
                   writers, tmp_file, sched>>

NextWriters ==
    \/ \E w \in Writers, new_pairs \in WriterPairs : BeginAtomicWrite(w, new_pairs)
    \/ \E w \in Writers : BeginDirectWrite(w, "USD", "EUR")
    \/ \E w \in Writers : OpenForWrite(w)
    \/ \E w \in Writers, mixed \in BOOLEAN : WriteChunk(w, mixed)
    \/ \E w \in Writers : FinishWrite(w)
    \/ ReadRatesFile

SpecWriters == InitWriters /\ [][NextWriters]_vars

\* a complete document
Complete(f) == f.st \notin {"blank", "torn"}

\* C16 as claimed: a reader running while one process writes the snapshot,
\* through write_snapshot_pairs or through the resolver's write-back, sees the
\* complete previous or the complete new content, never an empty or partial
\* file.
C16_AsClaimed ==
    (last.op = "read" /\ Cardinality(last.started) <= 1) => Complete(last.seen)

\* C17 as claimed: while processes write rates.json only through
\* _atomic_write_json, in any interleaving, the file in place is at every
\* moment a complete document.
C17_AsClaimed ==
    (\A w \in Writers : writers[w].kind \in {"none", "atomic"}) => Complete(rates_file)

\* ========================================================= clearing history
\* the number of records the ledger file holds
LedgerCount(hf) == IF hf.st = "list" THEN Len(hf.recs) ELSE 0

ClearStep == ops' # ops /\ last'.op = "clear_history"

\* C18: clear_history on a ledger holding n records returns n and leaves the
\* ledger an empty list, and the snapshot's pairs and last_refresh are what
\* they were before the call.
C18_ClearHistory ==
    [][ClearStep =>
          /\ last'.ret = LedgerCount(history_file)
          /\ history_file' = HistoryList(<<>>)
          /\ StoredPairs(rates_file') = StoredPairs(rates_file)
          /\ rates_file'.last_refresh = rates_file.last_refresh]_vars

\* a ledger of at least one record was cleared next to a populated snapshot
C18_Witness ==
    /\ last.op = "clear_history"
    /\ last.ret >= 1
    /\ history_file = HistoryList(<<>>)
    /\ DOMAIN StoredPairs(rates_file) # {}
    /\ rates_file.last_refresh # NoTs

\* ================================================== the periodic scheduler
\* The schedule command and run_periodic, step by step.
\*   pc : off      the command has not been given
\*        run      inside the try statement of the loop, run_update in flight
\*        sleep    inside time.sleep(interval), after the try statement
\*        stopped  run_periodic has returned
\*        escaped  an exception has left run_periodic
\*        exit0    the schedule command has returned 0
\*   cycle : how the last cycle ended: none, updated, error, interrupted

\* the try statement of the loop with KeyboardInterrupt falling through to
\* the sleep
SchedulerAfter_InterruptContinues(outcome) == "sleep"

\* the try statement of the loop with a return in "except Exception"
SchedulerAfter_ErrorEnds(outcome) == IF outcome = "updated" THEN "sleep" ELSE "stopped"

\* the try statement of the loop: "except KeyboardInterrupt" returns, every
\* other way out of it goes on to time.sleep(interval)
SchedulerAfter(outcome) == IF outcome = "interrupt" THEN "stopped" ELSE "sleep"

\* the interval taken as requested, without the minimum
Interval_NoMinimum(interval_seconds) == IF interval_seconds > 0 THEN interval_seconds ELSE 0

\* interval = max(1.0, float(interval_seconds)), in ticks
Interval(interval_seconds) ==
    IF interval_seconds > TicksPerSecond THEN interval_seconds ELSE TicksPerSecond

\* --interval values: negative, zero, and above the minimum
IntervalInputs == {-1, 0, TicksPerSecond + 1}

InitScheduler ==
    /\ history_file = MissingHistory
    /\ rates_file \in {MissingRates, EmptySnapshot}
    /\ now = 0
    /\ env = DefaultEnv
    /\ fromiso_z = TRUE
    /\ last = NoCall
    /\ fb = NoFallback
    /\ ops = 0
    /\ writers = NoWriters
    /\ tmp_file = NoTmp
    /\ sched = SchedOff

\* the schedule command up to the first cycle: the flags given are put into
\* os.environ, run_periodic computes the interval and enters the loop
CmdSchedule(source, interval_seconds, strict, no_history) ==
    /\ sched.pc = "off"
    /\ env' = [env EXCEPT
                 !.snapshot_strict = IF strict THEN "1" ELSE env.snapshot_strict,
                 !.history_disabled = IF no_history THEN "1" ELSE env.history_disabled]
    /\ sched' = [pc |-> "run", source |-> source, requested |-> interval_seconds,
                 interval |-> Interval(interval_seconds), cycle |-> "none",
                 interrupted |-> FALSE, strict |-> strict,
                 no_history |-> no_history, prev |-> env]
    /\ UNCHANGED <<history_file, rates_file, now, fromiso_z, last, fb, ops,
                   writers, tmp_file>>

\* one pass through the try statement with no interrupt: run_update returns
\* its summary, or raises (here: its merge raises, or the operating system
\* refuses the first write), and the handler prints the error
Cycle(fiat, crypto, io_error) ==
    /\ sched.pc = "run"
    /\ LET fetch == [exchangerate |-> fiat, coingecko |-> crypto]
           r == RunUpdate(history_file, rates_file, env, sched.source, fetch, now)
           outcome == IF io_error \/ r.raised THEN "error" ELSE "updated"
       IN  /\ history_file' = IF io_error THEN history_file ELSE r.hfile
           /\ rates_file' = IF io_error THEN rates_file ELSE r.rfile
           /\ sched' = [sched EXCEPT !.pc = SchedulerAfter(outcome), !.cycle = outcome]
    /\ UNCHANGED <<now, env, fromiso_z, last, fb, ops, writers, tmp_file>>

\* time.sleep(interval) returns and the loop starts the next cycle
Wake ==
    /\ sched.pc = "sleep"
    /\ now' = IF now + sched.interval <= MaxTime THEN now + sched.interval ELSE MaxTime
    /\ sched' = [sched EXCEPT !.pc = "run"]
    /\ UNCHANGED <<history_file, rates_file, env, fromiso_z, last, fb, ops,
                   writers, tmp_file>>

\* KeyboardInterrupt while run_update is in flight: during the fetches, or
\* after the history append and before the snapshot write
InterruptRun(fiat, crypto, appended) ==
    /\ sched.pc = "run"
    /\ LET fetch == [exchangerate |-> fiat, coingecko |-> crypto]
           r == RunUpdate(history_file, rates_file, env, sched.source, fetch, now)
       IN  /\ history_file' = IF appended THEN r.hfile ELSE history_file
           /\ rates_file' = IF appended /\ ~EnvOn(env.history_disabled)
                            THEN EnsureRates(rates_file) ELSE rates_file
    /\ sched' = [sched EXCEPT !.pc = SchedulerAfter("interrupt"),
                              !.cycle = "interrupted", !.interrupted = TRUE]
    /\ UNCHANGED <<now, env, fromiso_z, last, fb, ops, writers, tmp_file>>

\* KeyboardInterrupt during time.sleep(interval), which no handler of
\* run_periodic encloses
InterruptSleep ==
    /\ sched.pc = "sleep"
    /\ sched' = [sched EXCEPT !.pc = "escaped", !.interrupted = TRUE]
    /\ UNCHANGED <<history_file, rates_file, now, env, fromiso_z, last, fb, ops,
                   writers, tmp_file>>

\* the schedule command after run_periodic: "except KeyboardInterrupt: pass",
\* the finally block puts back the variables of the flags given, return 0
ScheduleReturns ==
    /\ sched.pc \in {"stopped", "escaped"}
    /\ env' = [env EXCEPT
                 !.snapshot_strict = IF sched.strict THEN sched.prev.snapshot_strict
                                     ELSE env.snapshot_strict,
                 !.history_disabled = IF sched.no_history THEN sched.prev.history_disabled
                                      ELSE env.history_disabled]
    /\ sched' = [sched EXCEPT !.pc = "exit0"]
    /\ UNCHANGED <<history_file, rates_file, now, fromiso_z, last, fb, ops,
                   writers, tmp_file>>

\* what the providers selected by --source may answer in a cycle
SchedulerFiat ==
    IF sched.source = "coingecko" THEN {FetchFailed}
    ELSE {FetchFailed, Fetched(<<Item("USD_EUR", <<2, 1>>, IsoZ(0), "ExchangeRate-API")>>)}
SchedulerCrypto ==
    IF sched.source = "exchangerate" THEN {FetchFailed} ELSE CryptoOutcomes(now)

\* the steps the loop takes by itself
LoopStep ==
    \/ \E fiat \in SchedulerFiat, crypto \in SchedulerCrypto, io_error \in BOOLEAN :
          Cycle(fiat, crypto, io_error)
    \/ Wake

NextScheduler ==
    \/ \E source \in UpdaterSources, interval_seconds \in IntervalInputs,
          strict \in BOOLEAN, no_history \in BOOLEAN :
          CmdSchedule(source, interval_seconds, strict, no_history)
    \/ \E fiat \in SchedulerFiat, crypto \in SchedulerCrypto, io_error \in BOOLEAN :
          Cycle(fiat, crypto, io_error)
    \/ Wake
    \/ \E fiat \in SchedulerFiat, crypto \in SchedulerCrypto, appended \in BOOLEAN :
          InterruptRun(fiat, crypto, appended)
    \/ InterruptSleep
    \/ ScheduleReturns

SpecScheduler == InitScheduler /\ [][NextScheduler]_vars

\* run_update comes back (every fetch has a request timeout) and time.sleep
\* returns after the interval: the loop's own steps are not put off for ever
SpecSchedulerLive == SpecScheduler /\ WF_vars(LoopStep)

SchedulerEnded == sched.pc \in {"stopped", "escaped", "exit0"}

\* C19: a cycle that ends in a non-interrupt error leaves the loop running:
\* it goes on to the sleep and from there to another orchestrator call; the
\* loop has ended only when an interrupt was delivered; and, until one is,
\* every cycle is followed by the sleep and every sleep by another cycle.
C19_ErrorCycleContinues ==
    /\ [][(sched.pc = "run" /\ sched'.cycle = "error" /\ sched' # sched)
             => (sched'.pc = "sleep" /\ ~sched'.interrupted)]_vars
    /\ [](SchedulerEnded => sched.interrupted)
    /\ (sched.pc = "run") ~> (sched.pc = "sleep" \/ sched.interrupted)
    /\ (sched.pc = "sleep") ~> (sched.pc = "run" \/ sched.interrupted)

\* a failed cycle has been followed by another orchestrator call
C19_Witness ==
    /\ sched.pc = "run"
    /\ sched.cycle = "error"
    /\ ~sched.interrupted

InterruptStep == ~sched.interrupted /\ sched'.interrupted

\* C20 as claimed: an interrupt at any point of run_periodic, in the run or
\* in the sleep, makes run_periodic return normally.
C20_AsClaimed == [][InterruptStep => sched'.pc = "stopped"]_vars

\* C20: an interrupt ends the loop without another cycle.  Delivered while
\* run_update is in flight, run_periodic returns normally; delivered during
\* the sleep, KeyboardInterrupt leaves run_periodic.  Either way the schedule
\* command puts back the environment variables of its flags and returns 0.
C20_InterruptStops ==
    [][/\ InterruptStep =>
            /\ sched.pc = "run" => sched'.pc = "stopped"
            /\ sched.pc = "sleep" => sched'.pc = "escaped"
       /\ sched.interrupted =>
            /\ sched'.pc \in {"stopped", "escaped", "exit0"}
            /\ history_file' = history_file /\ rates_file' = rates_file
       /\ (SchedulerEnded /\ sched' # sched) =>
            /\ sched'.pc = "exit0"
            /\ (sched.strict \/ sched.no_history) => env' = sched.prev]_vars

\* the command has returned after an interrupt during the sleep that followed
\* a completed cycle, with a flag to put back
C20_Witness ==
    /\ sched.pc = "exit0"
    /\ sched.interrupted
    /\ sched.cycle = "updated"
    /\ sched.strict
    /\ env = DefaultEnv

\* C21: the loop sleeps max(1 second, requested interval) between runs.  The
\* first run starts with the command, with no sleep before it; a run is
\* followed by a sleep or by the end of the loop, never directly by another
\* run; and the one sleep between two runs lasts the effective interval, which
\* is the requested interval when that exceeds one second and one second
\* otherwise (the clock of the model is followed up to MaxTime).
C21_OncePerInterval ==
    [][/\ sched.pc = "off" /\ sched' # sched =>
            /\ sched'.pc = "run" /\ sched'.cycle = "none" /\ now' = now
       /\ sched.pc = "run" /\ sched' # sched =>
            /\ sched'.pc \in {"sleep", "stopped"} /\ now' = now
       /\ sched.pc = "sleep" /\ sched'.pc = "run" =>
            /\ sched.interval >= TicksPerSecond
            /\ sched.interval = (IF sched.requested > TicksPerSecond
                                 THEN sched.requested ELSE TicksPerSecond)
            /\ now' = now + sched.interval \/ now' = MaxTime
            /\ now' = MaxTime => now + sched.interval >= MaxTime]_vars

\* a second run has started one second after the first, the interval
\* requested being zero or negative
C21_Witness ==
    /\ sched.pc = "run"
    /\ sched.cycle \in {"updated", "error"}
    /\ sched.requested <= 0
    /\ now = TicksPerSecond

\* ================================================ the refresh at startup
\* maybe_auto_update_on_start, called by the command line before every
\* command and by the interactive loop when it starts.  A calendar day of the
\* model lasts DaySeconds; env.tz is the offset of local time from UTC, in ticks.
DayTicks == DaySeconds * TicksPerSecond

\* .date() of a datetime parsed from a "...Z" or "...+00:00" text
UtcDate(t) == t \div DayTicks

\* datetime.now().date(): the date on the local clock
LocalDate(t, tz) == (t + tz) \div DayTicks

\* flag in {"0", "false", "False"}
AutoUpdateOff(v) == v \in {"0", "false", "False"}

\* str(snap.get("last_refresh") or ""), datetime.fromisoformat(last.replace("Z", "+00:00")):
\* <<"dt", date>>, or <<"none", 0>> for last_dt = None
ParseLastRefresh(ts) ==
    IF ts[1] \in {"Z", "off"} THEN <<"dt", UtcDate(ts[2])>> ELSE <<"none", 0>>

\* the test of staleness taking a refresh of today as stale too
NeedDaily_SameDay(last_dt, today) == last_dt[1] = "none" \/ last_dt[2] <= today

\* need_daily = last_dt is None or last_dt.date() < now.date()
NeedDaily(last_dt, today) == last_dt[1] = "none" \/ last_dt[2] < today

\* the second try block of maybe_auto_update_on_start: [runs, failed, hfile, rfile]
\*   io_error : "read" - the operating system fails read_snapshot,
\*              "run"  - it fails the first write of run_update, "none"
AutoUpdateBody(hf, rf, e, fetch, t_now, io_error) ==
    IF io_error = "read"
    THEN [runs |-> 0, failed |-> TRUE, hfile |-> hf, rfile |-> rf]
    ELSE LET rd == ReadSnapshotCall(rf)
             hf1 == EnsureHistory(hf)
             last_dt == ParseLastRefresh(rd.ret.last_refresh)
             r == RunUpdate(hf1, rd.file, e, "", fetch, t_now)
         IN  IF ~NeedDaily(last_dt, LocalDate(t_now, e.tz))
             THEN [runs |-> 0, failed |-> FALSE, hfile |-> hf1, rfile |-> rd.file]
             ELSE IF io_error = "run"
             THEN [runs |-> 1, failed |-> TRUE, hfile |-> hf1, rfile |-> rd.file]
             ELSE [runs |-> 1, failed |-> r.raised, hfile |-> r.hfile, rfile |-> r.rfile]

\* maybe_auto_update_on_start without "except Exception: return"
MaybeAutoUpdate_NoCatch(hf, rf, e, command, fetch, t_now, io_error) ==
    IF AutoUpdateOff(e.auto_update) \/ command \in {"update-rates", "clear-history"}
    THEN [raised |-> FALSE, runs |-> 0, failed |-> FALSE, hfile |-> hf, rfile |-> rf]
    ELSE LET b == AutoUpdateBody(hf, rf, e, fetch, t_now, io_error)
         IN  [raised |-> b.failed, runs |-> b.runs, failed |-> b.failed,
              hfile |-> b.hfile, rfile |-> b.rfile]

\* scheduler.maybe_auto_update_on_start: [raised, runs, failed, hfile, rfile]
MaybeAutoUpdate(hf, rf, e, command, fetch, t_now, io_error) ==
    IF AutoUpdateOff(e.auto_update) \/ command \in {"update-rates", "clear-history"}
    THEN [raised |-> FALSE, runs |-> 0, failed |-> FALSE, hfile |-> hf, rfile |-> rf]
    ELSE LET b == AutoUpdateBody(hf, rf, e, fetch, t_now, io_error)
         IN  [raised |-> FALSE, runs |-> b.runs, failed |-> b.failed,
              hfile |-> b.hfile, rfile |-> b.rfile]

\* values of PARSER_AUTO_UPDATE_ON_START
AutoValues == {"unset", "0", "false", "no"}

\* offsets of local time from UTC: west, none, east
TzValues == {-1, 0, 1}

\* ns.command; "<none>" is the None the interactive loop passes
StartCommands == {"<none>", "show-rates", "update-rates", "clear-history"}

\* rates.json as a start may find it
StartupFiles ==
    {MissingRates, CorruptRates, EmptySnapshot,
     SnapshotObject(EmptyMap, BadTs),
     SnapshotObject(EmptyMap, IsoZ(0)),
     SnapshotObject(EmptyMap, IsoOffset(DayTicks))}

InitStartup ==
    /\ history_file = MissingHistory
    /\ rates_file \in StartupFiles
    /\ now = 0
    /\ env \in {[DefaultEnv EXCEPT !.auto_update = a, !.tz = z] :
                  a \in AutoValues, z \in TzValues}
    /\ fromiso_z = TRUE
    /\ last = NoCall
    /\ fb = NoFallback
    /\ ops = 0
    /\ writers = NoWriters
    /\ tmp_file = NoTmp
    /\ sched = SchedOff

\* time passes
StartupTick ==
    /\ now < MaxDays * DayTicks
    /\ now' = now + 1
    /\ UNCHANGED <<history_file, rates_file, env, fromiso_z, last, fb, ops,
                   writers, tmp_file, sched>>

\* the local date of the latest start whose auto-update run completed; a
\* date before every date when there has been none
DoneDay == IF last.op = "auto_update" THEN last.done_day ELSE -9

\* one start of the application: _maybe_auto_update(ns.command), after which
\* _run_once goes on to the command when the call has returned
CallMaybeAutoUpdate(command, fiat, crypto, io_error) ==
    /\ ops < MaxOps
    /\ LET fetch == [exchangerate |-> fiat, coingecko |-> crypto]
           r == MaybeAutoUpdate(history_file, rates_file, env, command, fetch, now,
                                io_error)
       IN  /\ history_file' = r.hfile
           /\ rates_file' = r.rfile
           /\ last' = [op |-> "auto_update", command |-> command,
                       io_error |-> io_error, runs |-> r.runs, failed |-> r.failed,
                       raised |-> r.raised, command_reached |-> ~r.raised,
                       done_day |-> IF r.runs = 1 /\ ~r.failed
                                    THEN LocalDate(now, env.tz) ELSE DoneDay]
    /\ ops' = ops + 1
    /\ UNCHANGED <<now, env, fromiso_z, fb, writers, tmp_file, sched>>

\* what the two providers may answer to the run a start triggers
\* (no API key configured: the fiat fetch fails)
StartupFiat == {FetchFailed}

NextStartup ==
    \/ StartupTick
    \/ \E command \in StartCommands, fiat \in StartupFiat, crypto \in CryptoOutcomes(now),
          io_error \in {"none", "read", "run"} :
          CallMaybeAutoUpdate(command, fiat, crypto, io_error)

SpecStartup == InitStartup /\ [][NextStartup]_vars

StartStep == ops' # ops /\ last'.op = "auto_update"

\* the snapshot's last_refresh is missing, unparseable or dated before today
StaleRefresh(f, t, tz) ==
    LET lr == IF f.st = "obj" THEN f.last_refresh ELSE NoTs
    IN  \/ lr[1] \notin {"Z", "off"}
        \/ lr[2] \div DayTicks < (t + tz) \div DayTicks

C23_StartupNeverBlocked ==
    last.op = "auto_update" => (~last.raised /\ last.command_reached)

\* the run a start triggered has failed, and the start has gone on
C23_Witness ==
    /\ last.op = "auto_update"
    /\ last.runs = 1
    /\ last.failed
    /\ last.command_reached

\* C24 as claimed: after a start on which the auto-update run completed, no
\* later start on the same calendar day triggers another run.
C24_AsClaimed ==
    [][(StartStep /\ DoneDay = LocalDate(now, env.tz)) => last'.runs = 0]_vars

\* =============================================== rates a provider may report
\* Orchestrator runs and resolver calls over provider answers that carry a
\* positive, a zero, a negative and an infinite rate.

\* float(rate) of a JSON number beyond the double range (1e999) or of the
\* literal Infinity, both of which resp.json() accepts: inf.  1.0 / inf is 0.0.
Infinity == <<1, 0>>

RateInputs == {<<2, 1>>, <<0, 1>>, <<-1, 1>>, Infinity}

RatesFiat(t) ==
    {Fetched(<<Item("USD_EUR", r, IsoZ(t), "ExchangeRate-API")>>) : r \in RateInputs}

InitRates ==
    /\ history_file = MissingHistory
    /\ rates_file \in {MissingRates, EmptySnapshot}
    /\ now = 0
    /\ env = DefaultEnv
    /\ fromiso_z = TRUE
    /\ last = NoCall
    /\ fb = NoFallback
    /\ ops = 0
    /\ writers = NoWriters
    /\ tmp_file = NoTmp
    /\ sched = SchedOff

NextRates ==
    \/ Tick
    \/ \E strict \in FlagValues, history_disabled \in FlagValues :
          SetEnvFlags(strict, history_disabled)
    \/ \E source \in {"", "exchangerate"}, fiat \in RatesFiat(now),
          crypto \in CryptoOutcomes(now) :
          CallRunUpdate(source, fiat, crypto)
    \/ \E frm \in {"USD", "EUR"}, to \in {"USD", "EUR"} : CallGetRate(frm, to)

SpecRates == InitRates /\ [][NextRates]_vars

\* C25 as claimed: whatever rates the providers report, every record stored
\* in the snapshot has a rate > 0.
C25_AsClaimed ==
    \A k \in DOMAIN StoredPairs(rates_file) :
        LET r == StoredPairs(rates_file)[k].rate
        IN  r[1] > 0 /\ r[2] >= 0

\* ============================================ more claims about one run
RunStep == ops' # ops /\ last'.op = "run_update"

\* the records of the ledger file
LedgerRecs(hf) == IF hf.st = "list" THEN hf.recs ELSE <<>>

\* C26: a run with PARSER_HISTORY_DISABLED set leaves the ledger's records as
\* they were and reports added == 0, and the snapshot after it is the
\* snapshot the same run leaves with history writing enabled.
C26_HistoryDisabled ==
    [][(RunStep /\ last'.history_off) =>
          /\ LedgerRecs(history_file') = LedgerRecs(history_file)
          /\ history_file'.st \in {history_file.st, "list"}
          /\ last'.summary.added = 0
          /\ LET enabled == RunUpdate(history_file, rates_file,
                                      [env EXCEPT !.history_disabled = "unset"],
                                      last'.source, last'.fetch, now)
             IN  /\ rates_file' = enabled.rfile
                 /\ last'.raised = enabled.raised]_vars

\* a run with history writing disabled stored a pair the ledger does not have
C26_Witness ==
    /\ last.op = "run_update" /\ last.history_off /\ ~last.raised
    /\ last.summary.added = 0
    /\ last.summary.fiat + last.summary.crypto >= 1
    /\ DOMAIN StoredPairs(rates_file) # {}
    /\ LedgerRecs(history_file) = <<>>

\* C27 as claimed: in merge mode an incoming record whose updated_at is
\* missing or does not parse never replaces the record stored under its key.
C27_AsClaimed ==
    (last.op = "write_snapshot_pairs" /\ ~last.strict)
        => LET old == StoredPairs(last.before)
               new == last.new_pairs
           IN  \A k \in (DOMAIN new) \cap (DOMAIN old) :
                  new[k].updated_at[1] \in {"bad", "none"}
                     => /\ k \in DOMAIN StoredPairs(rates_file)
                        /\ StoredPairs(rates_file)[k] = old[k]

\* ==================================================== the provider clients
\* fetch_rates of the two clients as functions of the configuration and of
\* what the HTTP request brings: [error, items], error = "none" for a return.
\*   net    : "ok", or the requests exception raised by requests.get
\*   status : resp.status_code
\*   body   : "not_json"    text that resp.json() cannot parse
\*            "json_list"   JSON that is no object, such as []
\*            "fail_result" an object whose "result" is not "success"
\*            "no_rates"    an object with result "success" and nothing else
\*            "rates"       the provider's regular answer
NetOutcomes == {"ok", "timeout", "connection"}
StatusCodes == {200, 404, 500}
Bodies == {"not_json", "json_list", "fail_result", "no_rates", "rates"}

Raised(error) == [error |-> error, items |-> <<>>]
Returned(items) == [error |-> "none", items |-> items]

\* ExchangeRateApiClient.fetch_rates; api_key: whether EXCHANGERATE_API_KEY is
\* set (EXCHANGERATE_API_URL is not)
FetchFiat(api_key, net, status, body, t_now) ==
    IF ~api_key THEN Raised("RuntimeError")
    ELSE IF net # "ok" THEN Raised("ApiRequestError")
    ELSE IF status # 200 THEN Raised("ApiRequestError")
    ELSE IF body # "rates" THEN Raised("ApiRequestError")
    ELSE Returned(<<Item("USD_EUR", <<2, 1>>, IsoZ(t_now), "ExchangeRate-API")>>)

\* CoinGeckoClient.fetch_rates
FetchCrypto(net, status, body, t_now) ==
    IF net # "ok" THEN Raised("ApiRequestError")
    ELSE IF status # 200 THEN Raised("ApiRequestError")
    ELSE IF body = "not_json" THEN Raised("ApiRequestError")
    ELSE IF body = "json_list" THEN Raised("AttributeError")
    ELSE IF body = "rates"
    THEN Returned(<<Item("BTC_USD", <<3, 1>>, IsoZ(t_now), "CoinGecko")>>)
    ELSE Returned(<<>>)

InitFetch ==
    /\ history_file \in {MissingHistory, HistoryList(<<>>)}
    /\ rates_file \in {MissingRates, EmptySnapshot}
    /\ now = 0
    /\ env = DefaultEnv
    /\ fromiso_z = TRUE
    /\ last = NoCall
    /\ fb = NoFallback
    /\ ops = 0
    /\ writers = NoWriters
    /\ tmp_file = NoTmp
    /\ sched = SchedOff

\* a call of client.fetch_rates()
CallFetchRates(provider, api_key, net, status, body) ==
    /\ last' = [op |-> "fetch_rates", provider |-> provider, api_key |-> api_key,
                net |-> net, status |-> status, body |-> body,
                before |-> <<history_file, rates_file>>,
                outcome |-> IF provider = "exchangerate"
                            THEN FetchFiat(api_key, net, status, body, now)
                            ELSE FetchCrypto(net, status, body, now)]
    /\ UNCHANGED <<history_file, rates_file, now, env, fromiso_z, fb, ops,
                   writers, tmp_file, sched>>

NextFetch ==
    \/ Tick
    \/ \E provider \in {"exchangerate", "coingecko"}, api_key \in BOOLEAN,
          net \in NetOutcomes, status \in StatusCodes, body \in Bodies :
          CallFetchRates(provider, api_key, net, status, body)

SpecFetch == InitFetch /\ [][NextFetch]_vars

\* C28 as claimed: a fetch returns its pairs or fails with ApiRequestError,
\* nothing else; it fails with ApiRequestError on a network failure, on a
\* status other than 200, on a payload that cannot be used and, for the fiat
\* provider, on a result other than "success"; and it leaves the persisted
\* files alone.
C28_AsClaimed ==
    last.op = "fetch_rates" =>
        /\ last.outcome.error \in {"none", "ApiRequestError"}
        /\ (\/ last.net # "ok"
            \/ last.status # 200
            \/ last.body \in {"not_json", "json_list"}
            \/ (last.provider = "exchangerate" /\ last.body = "fail_result"))
              => last.outcome.error = "ApiRequestError"
        /\ last.before = <<history_file, rates_file>>

\* how many times a provider was called
CallCount(calls, name) == Cardinality({i \in 1..Len(calls) : calls[i] = name})

Providers == {"exchangerate", "coingecko"}

\* C29: in one run every selected provider (the one named, or all of them
\* when none is named) is fetched exactly once, whether its fetch fails or
\* not, and a provider that is not selected is not fetched and counts 0.
C29_FetchedOnce ==
    [][RunStep =>
          LET selected == IF last'.source = "" THEN Providers ELSE {last'.source}
          IN  \A name \in Providers :
                 /\ CallCount(last'.calls, name) = (IF name \in selected THEN 1 ELSE 0)
                 /\ name \notin selected =>
                       (IF name = "exchangerate" THEN last'.summary.fiat
                        ELSE last'.summary.crypto) = 0]_vars

\* a run of both providers in which the first failed, was called once, and
\* the second was called after it
C29_Witness ==
    /\ last.op = "run_update"
    /\ last.source = ""
    /\ ~last.fetch.exchangerate.ok
    /\ last.fetch.coingecko.ok
    /\ last.calls = <<"exchangerate", "coingecko">>

\* the pairs a run aggregates: the items of the providers called that answered
AnsweredItems(l, name) ==
    IF CallCount(l.calls, name) >= 1 /\ l.fetch[name].ok THEN l.fetch[name].items ELSE <<>>
AggItems(l) == AnsweredItems(l, "exchangerate") \o AnsweredItems(l, "coingecko")

\* C30: after a run with history enabled the ledger holds exactly one record
\* with the id from_to_timestamp of every aggregated pair, a pair with a
\* non-positive rate included; summary.added is the growth of the ledger,
\* and it is the number of those ids that were not stored before the run.
C30_AddedIsGrowth ==
    [][(RunStep /\ ~last'.history_off /\ ~last'.raised) =>
          LET agg == AggItems(last')
              recs == LedgerRecs(history_file')
          IN  /\ \A i \in 1..Len(agg) :
                    Cardinality({j \in 1..Len(recs) : recs[j].id = ItemId(agg[i])}) = 1
              /\ last'.summary.added = Len(recs) - Len(LedgerRecs(history_file))
              /\ last'.summary.added =
                    Cardinality({i \in 1..Len(agg) :
                                   ItemId(agg[i]) \notin LedgerIds(history_file)})]_vars

\* a run added the row of a pair with rate zero to a ledger that already held
\* a record
C30_Witness ==
    /\ last.op = "run_update" /\ ~last.history_off /\ ~last.raised
    /\ last.summary.added = 1
    /\ Len(LedgerRecs(history_file)) >= 2
    /\ last.fetch.exchangerate.ok
    /\ \E i \in 1..Len(last.fetch.exchangerate.items) :
          last.fetch.exchangerate.items[i].rate[1] = 0

\* ============================================ more claims about the ledger
IsPrefix(a, b) == Len(a) <= Len(b) /\ \A i \in 1..Len(a) : b[i] = a[i]

\* C31: a call of append_history leaves the ledger it found as a prefix of
\* the ledger it leaves, so no stored record is changed, removed or moved,
\* and a record of the batch whose id is stored does not replace the stored
\* one; only clear_history makes stored records disappear.
C31_AppendOnly ==
    [][/\ last'.op = "append_history" =>
             IsPrefix(LedgerRecs(history_file), LedgerRecs(history_file'))
       /\ ~IsPrefix(LedgerRecs(history_file), LedgerRecs(history_file')) =>
             last'.op = "clear_history"]_vars

\* an append that added a record next to a stored one, its batch also
\* carrying the stored id with another rate
C31_Witness ==
    /\ last.op = "append_history"
    /\ last.ret >= 1
    /\ LedgerRecs(last.before) # <<>>
    /\ \E i \in 1..Len(last.batch), j \in 1..Len(LedgerRecs(last.before)) :
          /\ last.batch[i].id = LedgerRecs(last.before)[j].id
          /\ last.batch[i].rate # LedgerRecs(last.before)[j].rate

\* the ids of a batch that can be stored
BatchIds(batch) == {StrId(batch[i]) : i \in 1..Len(batch)} \ {""}

\* C35: on a ledger file whose content does not parse, append_history stores
\* the new records of the batch (one per id) and returns their count, 0 for
\* an empty batch, and clear_history returns 0 and leaves an empty ledger.
C35_CorruptLedger ==
    /\ (last.op = "append_history" /\ last.before = CorruptHistory) =>
          /\ last.ret = Cardinality(BatchIds(last.batch))
          /\ last.batch = <<>> => last.ret = 0
          /\ last.ret > 0 =>
                /\ history_file.st = "list"
                /\ Len(history_file.recs) = last.ret
                /\ {StrId(history_file.recs[i]) : i \in 1..last.ret} = BatchIds(last.batch)
                /\ \A i \in 1..last.ret :
                      \E j \in 1..Len(last.batch) : history_file.recs[i] = last.batch[j]
    /\ (last.op = "clear_history" /\ last.before = CorruptHistory) =>
          /\ last.ret = 0
          /\ history_file = HistoryList(<<>>)

\* two records appended to a ledger file that did not parse
C35_Witness ==
    /\ last.op = "append_history"
    /\ last.before = CorruptHistory
    /\ last.ret = 2
    /\ history_file.st = "list"

\* ================================================= the fallback table
\* get_rate called with codes that reach the three branches over def_rates:
\* from the base, to the base, and across the base.
FallbackCodes == {"USD", "EUR", "RUB"}

NextFallback ==
    \/ Tick
    \/ \E frm \in FallbackCodes, to \in FallbackCodes : CallGetRate(frm, to)

\* rates.json is missing, an empty snapshot, or the snapshot of an orchestrator
\* run at time 0
FallbackFiles ==
    {MissingRates, EmptySnapshot}
    \cup {RunUpdate(MissingHistory, MissingRates, DefaultEnv, "",
                    [exchangerate |-> f, coingecko |-> FetchFailed], 0).rfile :
            f \in ResolverFiat}

InitFallback ==
    /\ history_file = MissingHistory
    /\ rates_file \in FallbackFiles
    /\ now = 0
    /\ env = DefaultEnv
    /\ fromiso_z \in BOOLEAN
    /\ last = NoCall
    /\ fb = NoFallback
    /\ ops = 0
    /\ writers = NoWriters
    /\ tmp_file = NoTmp
    /\ sched = SchedOff

SpecFallback == InitFallback /\ [][NextFallback]_vars

\* rates.json can be read and holds no fresh record under f_t
NoFreshRecord(rf, f, t, t_now, z_ok) ==
    LET cache == EnsureDataFiles(rf)
        entry == CacheEntry(cache, PairKey(f, t))
    IN  /\ cache.st = "obj"
        /\ ~(entry.present /\ IsFresh(entry.rec.updated_at, t_now, z_ok))

\* C32: for distinct registry codes A and B with no fresh stored record,
\* get_rate does not fail (the table has every registry code) and returns
\* table[A] / table[B], the reciprocal of what it returns for (B, A); this
\* holds of the call just made and of a call for any pair of the registry in
\* every state reached.
C32_FallbackTable ==
    /\ last.op = "get_rate" =>
          /\ last.path # "unavailable"
          /\ last.path = "fallback" =>
                last.ret.rate = RatDiv(DefaultRatesToUsd[last.frm], DefaultRatesToUsd[last.to])
    /\ \A a \in Registry, b \in Registry :
          (a # b /\ NoFreshRecord(rates_file, a, b, now, fromiso_z)) =>
             LET r == GetRate(rates_file, a, b, now, fromiso_z)
                 back == GetRate(r.file, b, a, now, fromiso_z)
             IN  /\ r.path = "fallback"
                 /\ r.ret.rate = RatDiv(DefaultRatesToUsd[a], DefaultRatesToUsd[b])
                 /\ back.path = "fallback" => back.ret.rate = RatInv(r.ret.rate)

\* a rate derived across the base, both directions asked one after the other
C32_Witness ==
    /\ last.op = "get_rate"
    /\ last.path = "fallback"
    /\ last.frm = "RUB" /\ last.to = "EUR"
    /\ ops = 2
    /\ CacheEntry(rates_file, "EUR_RUB").present
    /\ CacheEntry(rates_file, "EUR_RUB").rec.rate = RatInv(last.ret.rate)

\* ======================================= the write-back and the store
\* C33: the snapshot a fallback call of get_rate(A, B) leaves is the one a
\* merge-mode write_snapshot_pairs of the single derived record A_B, stamped
\* with the same time, would leave, whatever rates.json held before.
C33_AsClaimed ==
    [][(ops' # ops /\ last'.op = "get_rate" /\ last'.path = "fallback") =>
          LET key == PairKey(last'.frm, last'.to)
              wr == WriteSnapshotPairs(rates_file, Put(EmptyMap, key, last'.ret),
                                       last'.ret.updated_at, FALSE)
          IN  /\ wr.ok
              /\ rates_file' = wr.file]_vars

\* ============================================ the flags of update-rates
\* A REPL session: update-rates and clear-history given one after the other
\* in one process, whose environment may already carry the PARSER_* flags.
\* rates.json is an empty snapshot or one whose USD_EUR record carries no
\* updated_at, against which the merge comparison of run_update raises.
ReplFiles ==
    {EmptySnapshot,
     SnapshotObject(Put(EmptyMap, "USD_EUR", PairRecord(One, NoTs, "ExchangeRate-API")),
                    NoTs)}

ReplFiat(t) ==
    {FetchFailed, Fetched(<<Item("USD_EUR", <<2, 1>>, IsoZ(t), "ExchangeRate-API")>>)}

InitRepl ==
    /\ history_file = MissingHistory
    /\ rates_file \in ReplFiles
    /\ now = 0
    /\ env \in {[DefaultEnv EXCEPT !.snapshot_strict = s, !.history_disabled = h] :
                  s \in FlagValues, h \in FlagValues}
    /\ fromiso_z = TRUE
    /\ last = NoCall
    /\ fb = NoFallback
    /\ ops = 0
    /\ writers = NoWriters
    /\ tmp_file = NoTmp
    /\ sched = SchedOff

NextRepl ==
    \/ Tick
    \/ \E strict \in BOOLEAN, no_history \in BOOLEAN :
          \E fiat \in ReplFiat(now) :
             CmdUpdateRates(strict, no_history, "", fiat, FetchFailed)
    \/ CmdClearHistory

SpecRepl == InitRepl /\ [][NextRepl]_vars

\* C39: when the update-rates command ends, with run_update having returned
\* or raised, every PARSER_* variable holds the value it had before the
\* command.
C39_AsClaimed ==
    [][(ops' # ops /\ last'.op = "run_update") => env' = env]_vars

\* ================================================ who writes last_refresh
\* C34: last_refresh of the snapshot is written by completed orchestrator
\* runs only; no other operation, and no call of get_rate, changes it.
C34_AsClaimed ==
    [][(ops' # ops /\ last'.op # "run_update") =>
          rates_file'.last_refresh = rates_file.last_refresh]_vars

\* ============================================= a run that fetches nothing
\* every selected provider raised or returned no pairs
NothingFetched(l) == FetchAll(Sources(l.source), l.fetch, <<>>) = <<>>

\* C36: a run in which every selected provider fails or returns no pairs
\* leaves the pairs map of the snapshot and the records of the ledger as they
\* were, in merge mode and in strict mode.
C36_AsClaimed ==
    [][(RunStep /\ NothingFetched(last')) =>
          /\ StoredPairs(rates_file') = StoredPairs(rates_file)
          /\ LedgerRecs(history_file') = LedgerRecs(history_file)]_vars

\* ================================================== monotonic snapshot
\* a merge-mode run, or a call of get_rate
MergeOrResolverStep ==
    /\ ops' # ops
    /\ \/ last'.op = "run_update" /\ ~last'.strict
       \/ last'.op = "get_rate"

\* the store's own view: a merge-mode run or a call of get_rate removes no
\* key of the pairs section and lowers no updated_at in it
PairsSectionMonotonic ==
    [][MergeOrResolverStep =>
          \A k \in DOMAIN StoredPairs(rates_file) :
             /\ k \in DOMAIN StoredPairs(rates_file')
             /\ Instant(StoredPairs(rates_file')[k].updated_at)
                   >= Instant(StoredPairs(rates_file)[k].updated_at)]_vars

\* C37: a merge-mode orchestrator write or a resolver write-back removes no
\* pair key stored in the snapshot, a key stored by a resolver write-back
\* included, and never lowers the updated_at stored under a key.
C37_AsClaimed ==
    [][MergeOrResolverStep =>
          \A k \in DOMAIN CachedPairs(rates_file) :
             /\ k \in DOMAIN CachedPairs(rates_file')
             /\ Instant(CachedPairs(rates_file')[k].updated_at)
                   >= Instant(CachedPairs(rates_file)[k].updated_at)]_vars

\* ===================================================== the same run twice
\* the run just made repeats the completed run before it: the same source,
\* the same provider output and the same flags
SameRunAgain ==
    /\ RunStep
    /\ last.op = "run_update"
    /\ ~last.raised
    /\ last'.source = last.source
    /\ last'.fetch = last.fetch
    /\ last'.strict = last.strict
    /\ last'.history_off = last.history_off

\* C38: a run that repeats the run before it, with the same provider output
\* (pairs, rates and timestamps) under the same flags, reports added == 0
\* and leaves the records of the ledger and the pairs map of the snapshot as
\* the first run left them.
C38_Idempotent ==
    [][SameRunAgain =>
          /\ ~last'.raised
          /\ last'.summary.added = 0
          /\ LedgerRecs(history_file') = LedgerRecs(history_file)
          /\ StoredPairs(rates_file') = StoredPairs(rates_file)]_vars

\* a second run that added nothing because the ledger held every id it built,
\* the snapshot holding the pairs it fetched
C38_Witness ==
    /\ last.op = "run_update"
    /\ ops = 2
    /\ ~last.history_off
    /\ ~last.raised
    /\ last.summary.fiat = 2
    /\ last.summary.added = 0
    /\ Len(LedgerRecs(history_file)) = 2
    /\ "USD_GBP" \in DOMAIN StoredPairs(rates_file)

====
